---- MODULE Spec2Model ----
(***************************************************************************)
(* Mission orchestration layer of sandboxed.sh.                            *)
(*                                                                         *)
(*   SpecRunner    MissionRunner (src/api/mission_runner.rs): queue,       *)
(*                 history, state, cancellation token, running handle.     *)
(*   SpecHub       FrontendToolHub (src/api/control.rs) with the turns     *)
(*                 that register tool calls on it and the resolvers.       *)
(*                                                                         *)
(*   SpecDetector  stall detector of OpenCodeAgent::execute                 *)
(*                 (src/agents/opencode.rs).                               *)
(*                                                                         *)
(*   SpecTurn      one CLI turn: run_claudecode_turn / run_opencode_turn    *)
(*                 (src/api/mission_runner.rs).                            *)
(*                                                                         *)
(*   SpecHealth    MissionRunner with check_health, its deliverables and the *)
(*                 files on disk.                                          *)
(*                                                                         *)
(*   SpecStream    event stream of a CLI backend                           *)
(*                 (src/backend/amp, src/backend/claudecode).              *)
(*                                                                         *)
(*   SpecTask      status transitions of a Task (src/task/task.rs).        *)
(*                                                                         *)
(*   SpecControl   control session: control_actor_loop                     *)
(*                 (src/api/control.rs) and the turn it runs               *)
(*                 (src/agents/leaf/executor.rs).                          *)
(*                                                                         *)
(* Each specification moves the variables of one component and leaves the  *)
(* others at their initial value.                                          *)
(***************************************************************************)
EXTENDS Naturals, Integers, Sequences, FiniteSets, TLC

(***************************************************************************)
(* Bounds of the model.                                                    *)
(***************************************************************************)
\* messages submitted to one MissionRunner
MaxMsgs == 3
\* ticks of the runner's clock (Instant::now())
MaxClock == 1
\* concurrent FrontendToolHub::resolve calls
NumResolvers == 2
\* interactive tool calls made by turns
NumCalls == 2
\* distinct tool-call ids
NumIds == 2
\* steps of the detector's clock
MaxTicks == 16
\* stdout lines a CLI turn reads
MaxLines == 3
\* UserMessage commands sent to the control session
MaxUserMsgs == 2
\* ToolResult and Cancel commands sent to the control session
MaxOtherCmds == 1
\* stdout lines a backend process writes during one streamed turn
MaxStreamLines == 3
\* tasks
NumTasks == 2

(***************************************************************************)
(* MissionRunner state (struct MissionRunner).                             *)
(***************************************************************************)
VARIABLES
  state,                \* MissionRunState
  queue,                \* VecDeque<QueuedMessage>, a message is its id
  history,              \* Vec<(role, content)>
  cancel_token,         \* Option<CancellationToken>: 0 is None, else a token id
  running_handle,       \* Option<JoinHandle>: 0 is None, else a task id
  explicitly_completed, \* bool
  last_activity,        \* Instant
  tasks,                \* the tokio tasks spawned by start_next, by task id
                        \* (sub: messages submitted before the first spawn)
  cancelled,            \* the CancellationTokens that have been cancelled
  submitted,            \* number of messages handed to queue_message so far
  ret,                  \* the last operation called on the runner and its result
  now                   \* the clock

runnerVars == <<state, queue, history, cancel_token, running_handle,
                explicitly_completed, last_activity, tasks, cancelled,
                submitted, ret, now>>

(***************************************************************************)
(* FrontendToolHub state, its callers and the control status cell.         *)
(***************************************************************************)
VARIABLES
  pending,       \* Mutex<HashMap<String, oneshot::Sender>>: id -> channel, 0 absent
  hub_lock,      \* holder of the tokio Mutex around `pending`
  chans,         \* the oneshot channel register creates for each call
  calls,         \* interactive tool calls being handled by turns
  resolvers,     \* the resolve calls
  announced,     \* ids whose ToolCall event has been broadcast
  regs,          \* registrations completed so far, per id
  status_state   \* ControlStatus.state

hubVars == <<pending, hub_lock, chans, calls, resolvers, announced, regs,
             status_state>>

(***************************************************************************)
(* Stall detector state (locals of OpenCodeAgent::execute).                *)
(***************************************************************************)
VARIABLES
  oc_pc,                          \* "new", "streaming", "joining", "done"
  tool_stuck_abort_timeout_secs,  \* configured hard-abort timeout, 0 = none
  clock,                          \* Instant::now(), seconds since the turn began
  last_event_time,
  last_stuck_check,
  stuck_tool_warned,
  sleep_deadline,                 \* when the select's current sleep completes
  sse_text_buffer,
  handle_aborted,                 \* message_handle.abort() has been called
  session_aborts,                 \* abort_session requests sent to the backend
  oc_cancel,                      \* ctx.cancel_token is cancelled
  oc_result,                      \* AgentResult: terminal reason and output
  recoveries,                     \* recovery attempts made
  first_recovery_at,              \* time of the first one
  inactive_since,                 \* when the backend last produced an event
  backend_silent,                 \* the backend has produced nothing at all
  all_stuck,                      \* every status check reported a stuck tool
  only_question                   \* every status check reported only "question"

detVars == <<oc_pc, tool_stuck_abort_timeout_secs, clock, last_event_time,
             last_stuck_check, stuck_tool_warned, sleep_deadline,
             sse_text_buffer, handle_aborted, session_aborts, oc_cancel,
             oc_result, recoveries, first_recovery_at, inactive_since,
             backend_silent, all_stuck, only_question>>

(***************************************************************************)
(* A CLI turn (run_mission_turn, run_claudecode_turn, run_opencode_turn).  *)
(***************************************************************************)
VARIABLES
  turn_pc,          \* "idle", "start", "loop", "wait_stderr", "wait_child", "done"
  backend_id,       \* "claudecode" or "opencode"
  child,            \* the CLI process: "none", "running", "exited", "killed"
  exit_success,     \* status.success() of the exited child
  cancel_flag,      \* the turn's CancellationToken is cancelled
  cancel_at,        \* where the turn was when it got cancelled
  lines_read,       \* stdout lines consumed
  text_buffer,      \* text deltas accumulated (claudecode), block 0
  final_result,
  had_error,
  final_text_seen,  \* an Assistant text block or a Result text has been read
  turn_result       \* the AgentResult returned

turnVars == <<turn_pc, backend_id, child, exit_success, cancel_flag, cancel_at,
              lines_read, text_buffer, final_result, had_error, final_text_seen,
              turn_result>>

(***************************************************************************)
(* Deliverables of a mission and the files on disk (check_health).         *)
(***************************************************************************)
VARIABLES
  deliverables,   \* MissionRunner.deliverables: the expected paths
  present         \* the paths that exist on disk

healthVars == <<deliverables, present>>

(***************************************************************************)
(* Control session: locals of control_actor_loop, the shared ControlStatus *)
(* cell, the broadcast channel and the turns the actor spawns.             *)
(***************************************************************************)
VARIABLES
  actor_pc,          \* "select": in tokio::select!; "emit": a status stored by
                     \* set_and_emit_status is not broadcast yet
  actor_unsent,      \* that status
  ctl_queue,         \* queue: VecDeque<(Uuid, String)>, a message is its id
  ctl_history,       \* history: Vec<(role, content)>
  running,           \* Option<JoinHandle>: 0 is None, else the turn
  running_cancel,    \* Option<CancellationToken>: 0 is None, else the turn
  status_queue_len,  \* ControlStatus.queue_len (status_state is .state)
  ctl_events,        \* what has been sent on the broadcast channel, in order
  turns,             \* the tasks spawned for run_single_control_turn
  user_sent,         \* UserMessage commands received so far
  other_sent         \* ToolResult and Cancel commands received so far

ctlVars == <<actor_pc, actor_unsent, ctl_queue, ctl_history, running,
             running_cancel, status_queue_len, ctl_events, turns, user_sent,
             other_sent>>

\* the control session's variables except the turns
ctlVarsButTurns == <<actor_pc, actor_unsent, ctl_queue, ctl_history, running,
                     running_cancel, status_queue_len, ctl_events, user_sent,
                     other_sent>>

(***************************************************************************)
(* Event stream of a CLI backend (Backend::send_message_streaming): the    *)
(* client's stdout reader, the conversion task and the consumer.           *)
(***************************************************************************)
VARIABLES
  rd_pc,        \* stdout reader task: "reading", "wait_child", "done"
  emitted,      \* the lines the process has written to stdout, in order
  cli_chan,     \* events in the client's channel (tx of the reader)
  cli_closed,   \* the reader task has ended and dropped its Sender
  conv_pc,      \* conversion task: "recv", "sending", "done"
  conv_batch,   \* exec_events of the current event not sent yet
  out_chan,     \* ExecutionEvents in the channel returned to the caller
  rx_dropped,   \* the caller has dropped the Receiver
  delivered     \* the ExecutionEvents the caller has received, in order

streamVars == <<rd_pc, emitted, cli_chan, cli_closed, conv_pc, conv_batch,
                out_chan, rx_dropped, delivered>>

(***************************************************************************)
(* Tasks (src/task/task.rs).                                               *)
(***************************************************************************)
VARIABLES
  task_status,  \* Task.status of each task
  task_ret      \* the last transition called and what it returned

taskVars == <<task_status, task_ret>>

(***************************************************************************)
(* The tool-calling loop of the TaskExecutor                               *)
(* (src/agents/leaf/executor.rs, run_loop).                                *)
(***************************************************************************)
VARIABLES
  ex_pc,               \* "new", "loop", "done"
  iteration,           \* iterations of the loop begun so far
  total_cost_cents,    \* spend accumulated by this run of the loop
  budget_total_cents,  \* task.budget().total_cents(): the cap
  budget_spent_cents,  \* what the task's budget had spent before the loop
  ex_cancel,           \* ctx.cancel_token is cancelled
  llm_calls,           \* chat_completion requests made
  ex_result            \* ExecutionLoopResult: output and success

execVars == <<ex_pc, iteration, total_cost_cents, budget_total_cents,
              budget_spent_cents, ex_cancel, llm_calls, ex_result>>

(***************************************************************************)
(* The events of an OpenCode CLI turn: the stdout loop of                  *)
(* run_opencode_turn and the stderr reader task it spawns                  *)
(* (src/api/mission_runner.rs).                                            *)
(***************************************************************************)
VARIABLES
  cl_written,   \* the pipe of each line the backend wrote, in the order written
  cl_stdout,    \* lines (by their position in cl_written) not yet read from stdout
  cl_stderr,    \* the same for stderr
  cl_exited,    \* the child has exited or was killed: both pipes are at their end
  cl_bus,       \* the AgentEvents sent on the broadcast channel, in order
  cl_main,      \* run_opencode_turn: "loop", "wait_stderr", "done"
  cl_err_task,  \* the stderr reader: "reading", "holding", "done", "cancelled"
  cl_err_line,  \* the line the stderr reader holds, 0 if none
  cl_cancel,    \* the turn's CancellationToken is cancelled
  cl_abort,     \* stderr_handle.abort() has been called
  cl_end        \* number of events on the bus when the turn returned

cliVars == <<cl_written, cl_stdout, cl_stderr, cl_exited, cl_bus, cl_main,
             cl_err_task, cl_err_line, cl_cancel, cl_abort, cl_end>>

vars == <<runnerVars, hubVars, detVars, turnVars, healthVars, ctlVars,
          streamVars, taskVars, execVars, cliVars>>

\* what the MissionRunner's operations leave alone
notRunner == <<hubVars, detVars, turnVars, healthVars, ctlVars,
          streamVars, taskVars, execVars, cliVars>>

\* what the FrontendToolHub's operations leave alone
notHub == <<runnerVars, detVars, turnVars, healthVars, ctlVars,
          streamVars, taskVars, execVars, cliVars>>

\* what the stall detector's steps leave alone
notDetector == <<runnerVars, hubVars, turnVars, healthVars, ctlVars,
          streamVars, taskVars, execVars, cliVars>>

\* what a CLI turn's steps leave alone
notTurn == <<runnerVars, hubVars, detVars, healthVars, ctlVars,
          streamVars, taskVars, execVars, cliVars>>

\* what the control session's steps leave alone (the hub and the status cell
\* are shared with it)
notControl == <<runnerVars, detVars, turnVars, healthVars, streamVars, taskVars,
               execVars, cliVars>>

\* what the steps of a backend's event stream leave alone
notStream == <<runnerVars, hubVars, detVars, turnVars, healthVars, ctlVars,
               taskVars, execVars, cliVars>>

\* what the operations of a Task leave alone
notTask == <<runnerVars, hubVars, detVars, turnVars, healthVars, ctlVars,
             streamVars, execVars, cliVars>>

\* what the steps of the tool-calling loop leave alone
notExec == <<runnerVars, hubVars, detVars, turnVars, healthVars, ctlVars,
             streamVars, taskVars, cliVars>>

\* what the steps of an OpenCode CLI turn's event forwarding leave alone
notCli == <<runnerVars, hubVars, detVars, turnVars, healthVars, ctlVars,
            streamVars, taskVars, execVars>>

NoneOpt == 0

MissionRunState == {"Queued", "Running", "WaitingForTool", "Finished"}

\* AgentResult.output of a turn, by what the runner can tell apart in it: plain
\* text (of a success or of a failure, the runner never reads result.success),
\* text that marks the mission complete, or the "Cancelled" of a cancelled turn.
OutputKinds == {"text", "marked", "cancelled"}

\* MissionRunner::new
RunnerInit ==
  /\ state = "Queued"
  /\ queue = <<>>
  /\ history = <<>>
  /\ cancel_token = NoneOpt
  /\ running_handle = NoneOpt
  /\ explicitly_completed = FALSE
  /\ last_activity = 0
  /\ tasks = <<>>
  /\ cancelled = {}
  /\ submitted = 0
  /\ ret = [op |-> "new", val |-> "unit"]
  /\ now = 0

\* MissionRunner::is_running
is_running == state \in {"Running", "WaitingForTool"}

\* result.2.output.contains("Mission marked as") || contains("complete_mission")
OutputMarksCompletion(out) == out.kind = "marked"

\* JoinHandle::is_finished
HandleFinished(t) == tasks[t].status # "running"

\* the turns spawned by start_next and not yet collected by poll_completion
InFlight == {t \in DOMAIN tasks : ~tasks[t].collected}

\* queue_message with push_front in place of push_back
queue_message_push_front ==
  /\ submitted < MaxMsgs
  /\ queue' = <<submitted + 1>> \o queue
  /\ submitted' = submitted + 1
  /\ ret' = [op |-> "queue_message", val |-> "unit"]
  /\ UNCHANGED <<state, history, cancel_token, running_handle,
                 explicitly_completed, last_activity, tasks, cancelled, now>>
  /\ UNCHANGED notRunner

\* MissionRunner::queue_message
queue_message ==
  /\ submitted < MaxMsgs
  /\ queue' = Append(queue, submitted + 1)
  /\ submitted' = submitted + 1
  /\ ret' = [op |-> "queue_message", val |-> "unit"]
  /\ UNCHANGED <<state, history, cancel_token, running_handle,
                 explicitly_completed, last_activity, tasks, cancelled, now>>
  /\ UNCHANGED notRunner

\* cancel that also marks the mission Finished and forgets the handle
cancel_resets_state ==
  /\ IF cancel_token # NoneOpt
       THEN cancelled' = cancelled \cup {cancel_token}
       ELSE cancelled' = cancelled
  /\ state' = "Finished"
  /\ running_handle' = NoneOpt
  /\ ret' = [op |-> "cancel", val |-> "unit"]
  /\ UNCHANGED <<queue, history, cancel_token,
                 explicitly_completed, last_activity, tasks, submitted, now>>
  /\ UNCHANGED notRunner

\* MissionRunner::cancel
cancel ==
  /\ IF cancel_token # NoneOpt
       THEN cancelled' = cancelled \cup {cancel_token}
       ELSE cancelled' = cancelled
  /\ ret' = [op |-> "cancel", val |-> "unit"]
  /\ UNCHANGED <<state, queue, history, cancel_token, running_handle,
                 explicitly_completed, last_activity, tasks, submitted, now>>
  /\ UNCHANGED notRunner

\* MissionRunner::start_next: refused while running or when the queue is empty
start_next_refused ==
  /\ is_running \/ queue = <<>>
  /\ ret' = [op |-> "start_next", val |-> FALSE]
  /\ UNCHANGED <<state, queue, history, cancel_token, running_handle,
                 explicitly_completed, last_activity, tasks, cancelled,
                 submitted, now>>
  /\ UNCHANGED notRunner

\* start_next without the `if self.is_running() { return false; }` guard
start_next_spawn_unguarded ==
  /\ queue # <<>>
  /\ LET id == Len(tasks) + 1
     IN /\ state' = "Running"
        /\ queue' = Tail(queue)
        /\ cancel_token' = id
        /\ tasks' = Append(tasks, [msg |-> Head(queue), token |-> id,
                                   hist |-> history,
                                   sub |-> IF tasks = <<>> THEN submitted ELSE 0,
                                   status |-> "running",
                                   output |-> [of |-> 0, kind |-> "text"],
                                   collected |-> FALSE])
        /\ running_handle' = id
  /\ ret' = [op |-> "start_next", val |-> TRUE]
  /\ UNCHANGED <<history, explicitly_completed, last_activity, cancelled,
                 submitted, now>>
  /\ UNCHANGED notRunner

\* start_next that keeps the CancellationToken of the previous turn
start_next_spawn_keeps_token ==
  /\ ~is_running
  /\ queue # <<>>
  /\ LET id == Len(tasks) + 1
         tok == IF cancel_token # NoneOpt THEN cancel_token ELSE id
     IN /\ state' = "Running"
        /\ queue' = Tail(queue)
        /\ cancel_token' = tok
        /\ tasks' = Append(tasks, [msg |-> Head(queue), token |-> tok,
                                   hist |-> history,
                                   sub |-> IF tasks = <<>> THEN submitted ELSE 0,
                                   status |-> "running",
                                   output |-> [of |-> 0, kind |-> "text"],
                                   collected |-> FALSE])
        /\ running_handle' = id
  /\ ret' = [op |-> "start_next", val |-> TRUE]
  /\ UNCHANGED <<history, explicitly_completed, last_activity, cancelled,
                 submitted, now>>
  /\ UNCHANGED notRunner

\* MissionRunner::start_next: pops the front message and spawns its turn
start_next_spawn ==
  /\ ~is_running
  /\ queue # <<>>
  /\ LET id == Len(tasks) + 1
     IN /\ state' = "Running"
        /\ queue' = Tail(queue)
        /\ cancel_token' = id
        /\ tasks' = Append(tasks, [msg |-> Head(queue), token |-> id,
                                   hist |-> history,
                                   sub |-> IF tasks = <<>> THEN submitted ELSE 0,
                                   status |-> "running",
                                   output |-> [of |-> 0, kind |-> "text"],
                                   collected |-> FALSE])
        /\ running_handle' = id
  /\ ret' = [op |-> "start_next", val |-> TRUE]
  /\ UNCHANGED <<history, explicitly_completed, last_activity, cancelled,
                 submitted, now>>
  /\ UNCHANGED notRunner

\* MissionRunner::start_next
start_next == start_next_refused \/ start_next_spawn

\* MissionRunner::poll_completion, no handle: `self.running_handle.take()?`
poll_completion_none ==
  /\ running_handle = NoneOpt
  /\ ret' = [op |-> "poll_completion", val |-> "None"]
  /\ UNCHANGED <<state, queue, history, cancel_token, running_handle,
                 explicitly_completed, last_activity, tasks, cancelled,
                 submitted, now>>
  /\ UNCHANGED notRunner

\* poll_completion that does not put the handle of an unfinished turn back
poll_completion_pending_drops_handle ==
  /\ running_handle # NoneOpt
  /\ ~HandleFinished(running_handle)
  /\ running_handle' = NoneOpt
  /\ ret' = [op |-> "poll_completion", val |-> "None"]
  /\ UNCHANGED <<state, queue, history, cancel_token, explicitly_completed,
                 last_activity, tasks, cancelled, submitted, now>>
  /\ UNCHANGED notRunner

\* MissionRunner::poll_completion, turn unfinished: the handle is put back
poll_completion_pending ==
  /\ running_handle # NoneOpt
  /\ ~HandleFinished(running_handle)
  /\ ret' = [op |-> "poll_completion", val |-> "None"]
  /\ UNCHANGED <<state, queue, history, cancel_token, running_handle,
                 explicitly_completed, last_activity, tasks, cancelled,
                 submitted, now>>
  /\ UNCHANGED notRunner

\* poll_completion whose Ok branch sets Finished when no message is queued
poll_completion_ok_finishes ==
  /\ running_handle # NoneOpt
  /\ tasks[running_handle].status = "ok"
  /\ LET t == running_handle
         out == tasks[t].output
     IN /\ last_activity' = now
        /\ state' = IF queue # <<>> THEN "Queued" ELSE "Finished"
        /\ explicitly_completed' =
             (explicitly_completed \/ OutputMarksCompletion(out))
        /\ history' = history \o << <<"user", tasks[t].msg>>,
                                    <<"assistant", out>> >>
        /\ tasks' = [tasks EXCEPT ![t].collected = TRUE]
        /\ ret' = [op |-> "poll_completion", val |-> <<tasks[t].msg, out>>]
  /\ running_handle' = NoneOpt
  /\ UNCHANGED <<queue, cancel_token, cancelled, submitted, now>>
  /\ UNCHANGED notRunner

\* MissionRunner::poll_completion, handle.await is Ok(result)
poll_completion_ok ==
  /\ running_handle # NoneOpt
  /\ tasks[running_handle].status = "ok"
  /\ LET t == running_handle
         out == tasks[t].output
     IN /\ last_activity' = now
        /\ state' = "Queued"
        /\ explicitly_completed' =
             (explicitly_completed \/ OutputMarksCompletion(out))
        /\ history' = history \o << <<"user", tasks[t].msg>>,
                                    <<"assistant", out>> >>
        /\ tasks' = [tasks EXCEPT ![t].collected = TRUE]
        /\ ret' = [op |-> "poll_completion", val |-> <<tasks[t].msg, out>>]
  /\ running_handle' = NoneOpt
  /\ UNCHANGED <<queue, cancel_token, cancelled, submitted, now>>
  /\ UNCHANGED notRunner

\* MissionRunner::poll_completion, handle.await is Err(JoinError)
poll_completion_err ==
  /\ running_handle # NoneOpt
  /\ tasks[running_handle].status = "panicked"
  /\ state' = "Finished"
  /\ tasks' = [tasks EXCEPT ![running_handle].collected = TRUE]
  /\ running_handle' = NoneOpt
  /\ ret' = [op |-> "poll_completion", val |-> "None"]
  /\ UNCHANGED <<queue, history, cancel_token, explicitly_completed,
                 last_activity, cancelled, submitted, now>>
  /\ UNCHANGED notRunner

\* MissionRunner::poll_completion
poll_completion ==
  \/ poll_completion_none
  \/ poll_completion_pending
  \/ poll_completion_ok
  \/ poll_completion_err

\* The spawned task returns run_mission_turn's AgentResult.  A turn reports
\* Cancelled only if its token was cancelled.
TurnReturn(t, kind) ==
  /\ tasks[t].status = "running"
  /\ kind = "cancelled" => tasks[t].token \in cancelled
  /\ tasks' = [tasks EXCEPT ![t].status = "ok",
                            ![t].output = [of |-> tasks[t].msg, kind |-> kind]]
  /\ UNCHANGED <<state, queue, history, cancel_token, running_handle,
                 explicitly_completed, last_activity, cancelled, submitted,
                 ret, now>>
  /\ UNCHANGED notRunner

\* The spawned task panics: its JoinHandle yields a JoinError.
TurnPanic(t) ==
  /\ tasks[t].status = "running"
  /\ tasks' = [tasks EXCEPT ![t].status = "panicked"]
  /\ UNCHANGED <<state, queue, history, cancel_token, running_handle,
                 explicitly_completed, last_activity, cancelled, submitted,
                 ret, now>>
  /\ UNCHANGED notRunner

\* Time passes (Instant::now() grows).
RunnerTick ==
  /\ now < MaxClock
  /\ now' = now + 1
  /\ UNCHANGED <<state, queue, history, cancel_token, running_handle,
                 explicitly_completed, last_activity, tasks, cancelled,
                 submitted, ret>>
  /\ UNCHANGED notRunner

RunnerNext ==
  \/ queue_message
  \/ cancel
  \/ start_next
  \/ poll_completion
  \/ \E t \in DOMAIN tasks : \E kind \in OutputKinds : TurnReturn(t, kind)
  \/ \E t \in DOMAIN tasks : TurnPanic(t)
  \/ RunnerTick

(***************************************************************************)
(* FrontendToolHub (src/api/control.rs) and the two places that register   *)
(* interactive tool calls on it: TaskExecutor::run_loop ("ui_optionList")  *)
(* and OpenCodeAgent::handle_frontend_tool_call ("question").              *)
(***************************************************************************)
CallIds == 1..NumIds
Calls == 1..NumCalls
Resolvers == 1..NumResolvers

NoHolder == <<"none", 0>>

\* an interactive tool call not yet made
IdleCall == [path |-> "none", id |-> 0, pc |-> "idle", tpc |-> "idle",
             rx |-> 0, got |-> <<"none", 0>>]

\* a resolve call not yet made
IdleResolve == [pc |-> "idle", id |-> 0, tx |-> 0, result |-> "none"]

\* tokio::sync::oneshot::channel()
NewChannel == [val |-> 0, sends |-> 0, txDropped |-> FALSE, rxDropped |-> FALSE]

\* FrontendToolHub::new, with no tool call and no resolve under way
HubInit ==
  /\ pending = [i \in CallIds |-> 0]
  /\ hub_lock = NoHolder
  /\ chans = [c \in Calls |-> NewChannel]
  /\ calls = [c \in Calls |-> IdleCall]
  /\ resolvers = [p \in Resolvers |-> IdleResolve]
  /\ announced = {}
  /\ regs = [i \in CallIds |-> 0]
  /\ status_state = "Idle"

\* the table after `pending.insert(tool_call_id, tx)`
InsertPending(id, ch) == [pending EXCEPT ![id] = ch]

\* an insert that keeps the Sender it replaces alive
DropReplacedSender_keeps_sender(id, cs) == cs

\* the channels after the Sender that insert replaced (if any) is dropped
DropReplacedSender(id, cs) ==
  IF pending[id] # 0
    THEN [cs EXCEPT ![pending[id]].txDropped = TRUE]
    ELSE cs

\* FrontendToolHub::register: oneshot::channel() and `self.pending.lock().await`
RegisterLock(c) ==
  /\ hub_lock = NoHolder
  /\ hub_lock' = <<"call", c>>
  /\ chans' = [chans EXCEPT ![c] = NewChannel]
  /\ calls' = [calls EXCEPT ![c].tpc = "reg_locked", ![c].rx = c]
  /\ UNCHANGED <<pending, resolvers, announced, regs, status_state>>

\* FrontendToolHub::register: `pending.insert(tool_call_id, tx); rx`
RegisterInsert(c, after) ==
  /\ hub_lock = <<"call", c>>
  /\ pending' = InsertPending(calls[c].id, calls[c].rx)
  /\ chans' = DropReplacedSender(calls[c].id, chans)
  /\ regs' = [regs EXCEPT ![calls[c].id] = @ + 1]
  /\ hub_lock' = NoHolder
  /\ calls' = [calls EXCEPT ![c].tpc = after]
  /\ UNCHANGED <<resolvers, announced, status_state>>

\* an executor turn is between receiving an interactive tool call and the end
\* of its handling (the control session runs one turn, one call at a time)
ExecutorBusy ==
  \E c \in Calls : calls[c].path = "executor" /\ calls[c].pc \notin {"idle", "done"}

\* the ids a new tool call can carry: one already used, or the next fresh one
\* (the backend names its calls; fresh ids are interchangeable)
CallIdChoices ==
  {i \in CallIds : i <= 1 + Cardinality({calls[d].id : d \in Calls} \ {0})}

\* TaskExecutor::run_loop: the LLM response carries a ui_optionList tool call
ExecCall(c, id) ==
  /\ calls[c].pc = "idle"
  /\ id \in CallIdChoices
  /\ \A d \in Calls : d < c => calls[d].pc # "idle"
  /\ ~ExecutorBusy
  /\ calls' = [calls EXCEPT ![c].path = "executor", ![c].id = id,
                            ![c].pc = "call", ![c].tpc = "start"]
  /\ UNCHANGED <<pending, hub_lock, chans, resolvers, announced, regs,
                 status_state>>
  /\ UNCHANGED notHub

\* TaskExecutor::run_loop: `hub.register(tool_call.id.clone()).await`, lock taken
ExecRegisterLock(c) ==
  /\ calls[c].path = "executor"
  /\ calls[c].pc = "call"
  /\ calls[c].tpc = "start"
  /\ RegisterLock(c)
  /\ UNCHANGED notHub

\* TaskExecutor::run_loop: register returns the receiver
ExecRegisterInsert(c) ==
  /\ calls[c].path = "executor"
  /\ calls[c].tpc = "reg_locked"
  /\ RegisterInsert(c, "registered")
  /\ UNCHANGED notHub

\* TaskExecutor::run_loop: `events.send(AgentEvent::ToolCall { .. })`
ExecAnnounce(c) ==
  /\ calls[c].path = "executor"
  /\ calls[c].pc = "call"
  /\ calls[c].tpc = "registered"
  /\ announced' = announced \cup {calls[c].id}
  /\ calls' = [calls EXCEPT ![c].pc = "announced"]
  /\ UNCHANGED <<pending, hub_lock, chans, resolvers, regs, status_state>>
  /\ UNCHANGED notHub

\* TaskExecutor::run_loop: status becomes WaitingForTool, then the turn
\* suspends in `select! { v = rx => .., _ = token.cancelled() => .. }`
ExecSetWaiting(c) ==
  /\ calls[c].path = "executor"
  /\ calls[c].pc = "announced"
  /\ status_state' = "WaitingForTool"
  /\ calls' = [calls EXCEPT ![c].pc = "waiting", ![c].tpc = "waiting"]
  /\ UNCHANGED <<pending, hub_lock, chans, resolvers, announced, regs>>
  /\ UNCHANGED notHub

\* TaskExecutor::run_loop: `recv` is Ok(v): status back to Running
ExecRecvOk(c) ==
  /\ calls[c].path = "executor"
  /\ calls[c].pc = "waiting"
  /\ chans[calls[c].rx].val # 0
  /\ status_state' = "Running"
  /\ calls' = [calls EXCEPT ![c].pc = "done", ![c].tpc = "done",
                            ![c].got = <<"ok", chans[calls[c].rx].val>>]
  /\ UNCHANGED <<pending, hub_lock, chans, resolvers, announced, regs>>
  /\ UNCHANGED notHub

\* TaskExecutor::run_loop: `recv` is Err: the Sender was dropped unsent
ExecRecvClosed(c) ==
  /\ calls[c].path = "executor"
  /\ calls[c].pc = "waiting"
  /\ chans[calls[c].rx].val = 0
  /\ chans[calls[c].rx].txDropped
  /\ status_state' = "Running"
  /\ calls' = [calls EXCEPT ![c].pc = "done", ![c].tpc = "done",
                            ![c].got = <<"closed", 0>>]
  /\ UNCHANGED <<pending, hub_lock, chans, resolvers, announced, regs>>
  /\ UNCHANGED notHub

\* TaskExecutor::run_loop: `token.cancelled()` wins the select: the loop
\* returns "Cancelled" and the receiver is dropped with it
ExecCancelled(c) ==
  /\ calls[c].path = "executor"
  /\ calls[c].pc = "waiting"
  /\ chans' = [chans EXCEPT ![calls[c].rx].rxDropped = TRUE]
  /\ calls' = [calls EXCEPT ![c].pc = "done", ![c].tpc = "done",
                            ![c].got = <<"cancelled", 0>>]
  /\ UNCHANGED <<pending, hub_lock, resolvers, announced, regs, status_state>>
  /\ UNCHANGED notHub

\* OpenCodeAgent::execute receives ToolCall "question" and calls
\* handle_frontend_tool_call, which tokio::spawn()s the registering task
OcCallSpawn(c, id) ==
  /\ calls[c].pc = "idle"
  /\ id \in CallIdChoices
  /\ \A d \in Calls : d < c => calls[d].pc # "idle"
  /\ calls' = [calls EXCEPT ![c].path = "opencode", ![c].id = id,
                            ![c].pc = "spawned", ![c].tpc = "start"]
  /\ UNCHANGED <<pending, hub_lock, chans, resolvers, announced, regs,
                 status_state>>
  /\ UNCHANGED notHub

\* OpenCodeAgent::execute: `self.forward_event(&oc_event, ctx)` broadcasts the
\* ToolCall right after handle_frontend_tool_call has returned
OcForward(c) ==
  /\ calls[c].path = "opencode"
  /\ calls[c].pc = "spawned"
  /\ announced' = announced \cup {calls[c].id}
  /\ calls' = [calls EXCEPT ![c].pc = "done"]
  /\ UNCHANGED <<pending, hub_lock, chans, resolvers, regs, status_state>>
  /\ UNCHANGED notHub

\* the spawned task: `tool_hub.register(tool_call_id.clone()).await`, lock taken
OcTaskRegisterLock(c) ==
  /\ calls[c].path = "opencode"
  /\ calls[c].tpc = "start"
  /\ RegisterLock(c)
  /\ UNCHANGED notHub

\* the spawned task: register returns the receiver, the task awaits it
OcTaskRegisterInsert(c) ==
  /\ calls[c].path = "opencode"
  /\ calls[c].tpc = "reg_locked"
  /\ RegisterInsert(c, "waiting")
  /\ UNCHANGED notHub

\* the spawned task: `rx.await` is Ok(result), the answer goes to the backend
OcTaskRecvOk(c) ==
  /\ calls[c].path = "opencode"
  /\ calls[c].tpc = "waiting"
  /\ chans[calls[c].rx].val # 0
  /\ calls' = [calls EXCEPT ![c].tpc = "done", ![c].got = <<"ok", chans[calls[c].rx].val>>]
  /\ UNCHANGED <<pending, hub_lock, chans, resolvers, announced, regs,
                 status_state>>
  /\ UNCHANGED notHub

\* the spawned task: `let Ok(result) = rx.await else { return; }`
OcTaskRecvClosed(c) ==
  /\ calls[c].path = "opencode"
  /\ calls[c].tpc = "waiting"
  /\ chans[calls[c].rx].val = 0
  /\ chans[calls[c].rx].txDropped
  /\ calls' = [calls EXCEPT ![c].tpc = "done", ![c].got = <<"closed", 0>>]
  /\ UNCHANGED <<pending, hub_lock, chans, resolvers, announced, regs,
                 status_state>>
  /\ UNCHANGED notHub

\* FrontendToolHub::resolve is called: `self.pending.lock().await`
ResolveLock(p, id) ==
  /\ resolvers[p].pc = "idle"
  /\ \A q \in Resolvers : q < p => resolvers[q].pc # "idle"
  /\ hub_lock = NoHolder
  /\ hub_lock' = <<"resolve", p>>
  /\ resolvers' = [resolvers EXCEPT ![p].pc = "locked", ![p].id = id]
  /\ UNCHANGED <<pending, chans, calls, announced, regs, status_state>>
  /\ UNCHANGED notHub

\* the value a resolver passes as `result`
ValueOf(p) == 10 + p

\* oneshot::Sender::send: the value is stored unless the Receiver is gone;
\* the Sender is consumed either way
SenderSend(ch, v) ==
  IF chans[ch].rxDropped
    THEN [chans EXCEPT ![ch].txDropped = TRUE]
    ELSE [chans EXCEPT ![ch].val = v, ![ch].sends = @ + 1, ![ch].txDropped = TRUE]

\* resolve that looks the Sender up and leaves the entry in the table
ResolveLookupKeepsEntry(p) ==
  /\ resolvers[p].pc = "locked"
  /\ IF pending[resolvers[p].id] = 0
       THEN /\ resolvers' = [resolvers EXCEPT ![p].pc = "done", ![p].result = "Err"]
            /\ chans' = chans
       ELSE /\ resolvers' = [resolvers EXCEPT ![p].pc = "done", ![p].result = "Ok",
                                              ![p].tx = pending[resolvers[p].id]]
            /\ chans' = SenderSend(pending[resolvers[p].id], ValueOf(p))
  /\ hub_lock' = NoHolder
  /\ UNCHANGED <<pending, calls, announced, regs, status_state>>
  /\ UNCHANGED notHub

\* FrontendToolHub::resolve, with the mutex held:
\* `let Some(tx) = pending.remove(id) else { return Err(()) };
\*  let _ = tx.send(result); Ok(())`; the guard is released on return
ResolveRemove(p) ==
  /\ resolvers[p].pc = "locked"
  /\ IF pending[resolvers[p].id] = 0
       THEN /\ resolvers' = [resolvers EXCEPT ![p].pc = "done", ![p].result = "Err"]
            /\ pending' = pending
            /\ chans' = chans
       ELSE /\ resolvers' = [resolvers EXCEPT ![p].pc = "done", ![p].result = "Ok",
                                              ![p].tx = pending[resolvers[p].id]]
            /\ pending' = [pending EXCEPT ![resolvers[p].id] = 0]
            /\ chans' = SenderSend(pending[resolvers[p].id], ValueOf(p))
  /\ hub_lock' = NoHolder
  /\ UNCHANGED <<calls, announced, regs, status_state>>
  /\ UNCHANGED notHub

HubNext ==
  \/ \E c \in Calls : \E id \in CallIds : ExecCall(c, id)
  \/ \E c \in Calls : ExecRegisterLock(c)
  \/ \E c \in Calls : ExecRegisterInsert(c)
  \/ \E c \in Calls : ExecAnnounce(c)
  \/ \E c \in Calls : ExecSetWaiting(c)
  \/ \E c \in Calls : ExecRecvOk(c)
  \/ \E c \in Calls : ExecRecvClosed(c)
  \/ \E c \in Calls : ExecCancelled(c)
  \/ \E c \in Calls : \E id \in CallIds : OcCallSpawn(c, id)
  \/ \E c \in Calls : OcForward(c)
  \/ \E c \in Calls : OcTaskRegisterLock(c)
  \/ \E c \in Calls : OcTaskRegisterInsert(c)
  \/ \E c \in Calls : OcTaskRecvOk(c)
  \/ \E c \in Calls : OcTaskRecvClosed(c)
  \/ \E p \in Resolvers : \E id \in CallIds : ResolveLock(p, id)
  \/ \E p \in Resolvers : ResolveRemove(p)

(***************************************************************************)
(* Stall detector: the streaming loop of OpenCodeAgent::execute            *)
(* (src/agents/opencode.rs).                                               *)
(***************************************************************************)
\* const TOOL_STUCK_CHECK_INTERVAL: Duration = Duration::from_secs(120)
TOOL_STUCK_CHECK_INTERVAL == 120
\* const TOOL_STUCK_TIMEOUT: Duration = Duration::from_secs(300)
TOOL_STUCK_TIMEOUT == 300

\* seconds that pass in one step of the clock
Tick == TOOL_STUCK_CHECK_INTERVAL \div 2

\* values of TOOL_STUCK_ABORT_TIMEOUT_SECS: unset, and two ceilings
AbortTimeouts == {0, TOOL_STUCK_TIMEOUT, 4 * TOOL_STUCK_CHECK_INTERVAL}

\* what get_session_status answers: a tool running, only the question tool
\* running, nothing running, or a failed request
SessionStatuses == {"tool", "question", "empty", "error"}

\* OpenCodeEvent kinds the loop distinguishes
EventKinds == {"TextDelta", "ToolResult", "MessageComplete"}

\* content of a TextDelta
Contents == {" ", "A", "B"}

\* `s.trim().is_empty()`
IsBlank(s) == s \in {"", " "}

\* what the final response (after the backfill) holds: no part, parts without
\* text, or a text part
PartKinds == {"none", "notext", "text"}

\* extract_text(&response.parts)
extract_text(parts) == IF parts = "text" THEN "R" ELSE ""

NoResult == [reason |-> "none", output |-> ""]

DetectorInit ==
  /\ oc_pc = "new"
  /\ tool_stuck_abort_timeout_secs = 0
  /\ clock = 0
  /\ last_event_time = 0
  /\ last_stuck_check = 0
  /\ stuck_tool_warned = FALSE
  /\ sleep_deadline = 0
  /\ sse_text_buffer = ""
  /\ handle_aborted = FALSE
  /\ session_aborts = 0
  /\ oc_cancel = FALSE
  /\ oc_result = NoResult
  /\ recoveries = 0
  /\ first_recovery_at = 0
  /\ inactive_since = 0
  /\ backend_silent = TRUE
  /\ all_stuck = TRUE
  /\ only_question = TRUE

\* check_for_stuck_tool without the filter on "question": Some(names) as
\* soon as any tool is reported running
check_for_stuck_tool_any_running(status) == status \in {"tool", "question"}

\* check_for_stuck_tool: Some(names) only when a tool other than "question"
\* is reported running; None on an empty list and on a failed request
check_for_stuck_tool(status) == status = "tool"

\* elapsed >= TOOL_STUCK_CHECK_INTERVAL && !stuck_tool_warned
RecoveryDueAtInterval(elapsed, warned) ==
  elapsed >= TOOL_STUCK_CHECK_INTERVAL /\ ~warned

\* `if elapsed >= TOOL_STUCK_TIMEOUT && !stuck_tool_warned`
RecoveryDue(elapsed, warned) ==
  elapsed >= TOOL_STUCK_TIMEOUT /\ ~warned

\* `if self.tool_stuck_abort_timeout_secs > 0
\*      && elapsed.as_secs() >= self.tool_stuck_abort_timeout_secs`
AbortDue(elapsed) ==
  /\ tool_stuck_abort_timeout_secs > 0
  /\ elapsed >= tool_stuck_abort_timeout_secs

\* OpenCodeAgent::new reads the configured timeout; execute creates the
\* session, sends the message and enters the streaming loop
OcExecute(T) ==
  /\ oc_pc = "new"
  /\ ~oc_cancel
  /\ oc_pc' = "streaming"
  /\ tool_stuck_abort_timeout_secs' = T
  /\ last_event_time' = clock
  /\ last_stuck_check' = clock
  /\ stuck_tool_warned' = FALSE
  /\ sleep_deadline' = clock + TOOL_STUCK_CHECK_INTERVAL
  /\ inactive_since' = clock
  /\ UNCHANGED <<clock, sse_text_buffer, handle_aborted, session_aborts,
                 oc_cancel, oc_result, recoveries, first_recovery_at,
                 backend_silent, all_stuck, only_question>>
  /\ UNCHANGED notDetector

\* execute: `if ctx.is_cancelled() { return .. Cancelled }` before any request
OcExecuteCancelled ==
  /\ oc_pc = "new"
  /\ oc_cancel
  /\ oc_pc' = "done"
  /\ oc_result' = [reason |-> "Cancelled", output |-> ""]
  /\ UNCHANGED <<tool_stuck_abort_timeout_secs, clock, last_event_time,
                 last_stuck_check, stuck_tool_warned, sleep_deadline,
                 sse_text_buffer, handle_aborted, session_aborts, oc_cancel,
                 recoveries, first_recovery_at, inactive_since,
                 backend_silent, all_stuck, only_question>>
  /\ UNCHANGED notDetector

\* the cancellation token of the turn is cancelled
OcCancel ==
  /\ oc_pc # "done"
  /\ ~oc_cancel
  /\ oc_cancel' = TRUE
  /\ UNCHANGED <<oc_pc, tool_stuck_abort_timeout_secs, clock, last_event_time,
                 last_stuck_check, stuck_tool_warned, sleep_deadline,
                 sse_text_buffer, handle_aborted, session_aborts, oc_result,
                 recoveries, first_recovery_at, inactive_since,
                 backend_silent, all_stuck, only_question>>
  /\ UNCHANGED notDetector

\* time passes; a sleep that is due, or a cancellation, is served first
OcTick ==
  /\ oc_pc \in {"streaming", "joining"}
  /\ oc_pc = "streaming" => (~oc_cancel /\ clock < sleep_deadline)
  /\ clock + Tick <= MaxTicks * Tick
  /\ clock' = clock + Tick
  /\ UNCHANGED <<oc_pc, tool_stuck_abort_timeout_secs, last_event_time,
                 last_stuck_check, stuck_tool_warned, sleep_deadline,
                 sse_text_buffer, handle_aborted, session_aborts, oc_cancel,
                 oc_result, recoveries, first_recovery_at, inactive_since,
                 backend_silent, all_stuck, only_question>>
  /\ UNCHANGED notDetector

\* select!, biased: `_ = cancel.cancelled()` => abort_session,
\* message_handle.abort(), return Cancelled
OcSelectCancelled ==
  /\ oc_pc = "streaming"
  /\ oc_cancel
  /\ session_aborts' = session_aborts + 1
  /\ handle_aborted' = TRUE
  /\ oc_result' = [reason |-> "Cancelled", output |-> ""]
  /\ oc_pc' = "done"
  /\ UNCHANGED <<tool_stuck_abort_timeout_secs, clock, last_event_time,
                 last_stuck_check, stuck_tool_warned, sleep_deadline,
                 sse_text_buffer, oc_cancel, recoveries, first_recovery_at,
                 inactive_since, backend_silent, all_stuck, only_question>>
  /\ UNCHANGED notDetector

\* OcEvent with the check timer created once, outside the loop: an event
\* does not restart it
OcEvent_keeps_timer(kind, content) ==
  /\ oc_pc = "streaming"
  /\ ~oc_cancel
  /\ last_event_time' = clock
  /\ stuck_tool_warned' = FALSE
  /\ sse_text_buffer' = IF kind = "TextDelta" /\ ~IsBlank(content)
                          THEN content
                          ELSE sse_text_buffer
  /\ oc_pc' = IF kind = "MessageComplete" THEN "joining" ELSE "streaming"
  /\ sleep_deadline' = sleep_deadline
  /\ inactive_since' = clock
  /\ backend_silent' = FALSE
  /\ UNCHANGED <<tool_stuck_abort_timeout_secs, clock, last_stuck_check,
                 handle_aborted, session_aborts, oc_cancel, oc_result,
                 recoveries, first_recovery_at, all_stuck, only_question>>
  /\ UNCHANGED notDetector

\* select!: `event = event_rx.recv()` is Some(oc_event)
OcEvent(kind, content) ==
  /\ oc_pc = "streaming"
  /\ ~oc_cancel
  /\ last_event_time' = clock
  /\ stuck_tool_warned' = FALSE
  /\ sse_text_buffer' = IF kind = "TextDelta" /\ ~IsBlank(content)
                          THEN content
                          ELSE sse_text_buffer
  /\ oc_pc' = IF kind = "MessageComplete" THEN "joining" ELSE "streaming"
  /\ sleep_deadline' = clock + TOOL_STUCK_CHECK_INTERVAL
  /\ inactive_since' = clock
  /\ backend_silent' = FALSE
  /\ UNCHANGED <<tool_stuck_abort_timeout_secs, clock, last_stuck_check,
                 handle_aborted, session_aborts, oc_cancel, oc_result,
                 recoveries, first_recovery_at, all_stuck, only_question>>
  /\ UNCHANGED notDetector

\* select!: `event_rx.recv()` is None, the channel is closed: break
OcStreamClosed ==
  /\ oc_pc = "streaming"
  /\ ~oc_cancel
  /\ oc_pc' = "joining"
  /\ backend_silent' = FALSE
  /\ UNCHANGED <<tool_stuck_abort_timeout_secs, clock, last_event_time,
                 last_stuck_check, stuck_tool_warned, sleep_deadline,
                 sse_text_buffer, handle_aborted, session_aborts, oc_cancel,
                 oc_result, recoveries, first_recovery_at, inactive_since,
                 all_stuck, only_question>>
  /\ UNCHANGED notDetector

\* select!: `_ = tokio::time::sleep(TOOL_STUCK_CHECK_INTERVAL)` completes.
\* status is what get_session_status answers, recovery_ok whether
\* send_recovery_message returns Ok.  `elapsed` is read once, on entry.
OcSleepFired(status, recovery_ok) ==
  /\ oc_pc = "streaming"
  /\ ~oc_cancel
  /\ clock >= sleep_deadline
  /\ LET elapsed == clock - last_event_time
         since_last_check == clock - last_stuck_check
         checked == since_last_check >= TOOL_STUCK_CHECK_INTERVAL
         stuck == checked /\ check_for_stuck_tool(status)
         attempt == stuck /\ RecoveryDue(elapsed, stuck_tool_warned)
         switched == attempt /\ recovery_ok
         abort == stuck /\ AbortDue(elapsed)
     IN /\ last_stuck_check' = IF checked THEN clock ELSE last_stuck_check
        /\ all_stuck' = (all_stuck /\ (checked => stuck))
        /\ only_question' = (only_question /\ (checked => status = "question"))
        /\ stuck_tool_warned' = IF attempt THEN ~recovery_ok ELSE stuck_tool_warned
        /\ last_event_time' = IF switched THEN clock ELSE last_event_time
        /\ recoveries' = IF attempt THEN recoveries + 1 ELSE recoveries
        /\ first_recovery_at' = IF attempt /\ recoveries = 0
                                  THEN clock
                                  ELSE first_recovery_at
        /\ handle_aborted' = (handle_aborted \/ switched \/ abort)
        /\ session_aborts' = session_aborts + (IF attempt THEN 1 ELSE 0)
                                            + (IF abort THEN 1 ELSE 0)
        /\ oc_pc' = IF abort THEN "done" ELSE "streaming"
        /\ oc_result' = IF abort
                          THEN [reason |-> "Stalled", output |-> ""]
                          ELSE oc_result
        /\ sleep_deadline' = clock + TOOL_STUCK_CHECK_INTERVAL
  /\ UNCHANGED <<tool_stuck_abort_timeout_secs, clock, sse_text_buffer,
                 oc_cancel, inactive_since, backend_silent>>
  /\ UNCHANGED notDetector

\* the final output: extract_text of the parts, or the SSE buffer when that
\* is blank and the buffer is not
FinalOutput(parts) ==
  IF IsBlank(extract_text(parts)) /\ ~IsBlank(sse_text_buffer)
    THEN sse_text_buffer
    ELSE extract_text(parts)

\* after the loop: `message_handle.await`, the backfill of empty parts from
\* the session messages, `response.info.error`, and the final output.
\* joined is what the message task returned, parts/backfill what the response
\* and the session messages hold.
OcJoin(joined, parts, backfill) ==
  /\ oc_pc = "joining"
  /\ oc_pc' = "done"
  /\ oc_result' =
       IF handle_aborted \/ joined = "Err"
         THEN [reason |-> "LlmError", output |-> ""]
         ELSE [reason |-> "Completed",
               output |-> FinalOutput(IF parts = "none" THEN backfill ELSE parts)]
  /\ UNCHANGED <<tool_stuck_abort_timeout_secs, clock, last_event_time,
                 last_stuck_check, stuck_tool_warned, sleep_deadline,
                 sse_text_buffer, handle_aborted, session_aborts, oc_cancel,
                 recoveries, first_recovery_at, inactive_since,
                 backend_silent, all_stuck, only_question>>
  /\ UNCHANGED notDetector

DetectorNext ==
  \/ \E T \in AbortTimeouts : OcExecute(T)
  \/ OcExecuteCancelled
  \/ OcCancel
  \/ OcTick
  \/ OcSelectCancelled
  \/ \E kind \in EventKinds : \E content \in Contents : OcEvent(kind, content)
  \/ OcStreamClosed
  \/ \E status \in SessionStatuses : \E recovery_ok \in BOOLEAN :
       OcSleepFired(status, recovery_ok)
  \/ \E joined \in {"Ok", "Err"} : \E parts, backfill \in PartKinds :
       OcJoin(joined, parts, backfill)

(***************************************************************************)
(* CLI turns: run_claudecode_turn and run_opencode_turn                    *)
(* (src/api/mission_runner.rs).  Strings are sequences of tokens.          *)
(***************************************************************************)
BackendIds == {"claudecode", "opencode"}

\* ClaudeEvent lines the claudecode loop tells apart; text <<>> is "" or None
ClaudeEvents ==
  [type : {"text_delta"}, text : {<<>>, <<"A">>, <<"B">>}]
    \cup [type : {"assistant", "result", "result_error"}, text : {<<>>, <<"R">>}]
    \cup [type : {"other"}, text : {<<>>}]

\* stdout lines of the opencode CLI
OpenCodeLines == {<<>>, <<"A">>, <<"B">>, <<"Error:">>}

TurnInit ==
  /\ turn_pc = "idle"
  /\ backend_id = "claudecode"
  /\ child = "none"
  /\ exit_success = TRUE
  /\ cancel_flag = FALSE
  /\ cancel_at = "never"
  /\ lines_read = 0
  /\ text_buffer = <<>>
  /\ final_result = <<>>
  /\ had_error = FALSE
  /\ final_text_seen = FALSE
  /\ turn_result = [reason |-> "none", output |-> <<>>]

\* AgentResult::failure(..).with_terminal_reason(reason) / AgentResult::success
AgentResultOf(reason, output) == [reason |-> reason, output |-> output]

\* start_next spawns run_mission_turn for the configured backend
TurnStart(b) ==
  /\ turn_pc = "idle"
  /\ turn_pc' = "start"
  /\ backend_id' = b
  /\ UNCHANGED <<child, exit_success, cancel_flag, cancel_at, lines_read,
                 text_buffer, final_result, had_error, final_text_seen,
                 turn_result>>
  /\ UNCHANGED notTurn

\* `workspace_exec.spawn_streaming(..).await`: Ok(child), or Err => LlmError
TurnSpawn(ok) ==
  /\ turn_pc = "start"
  /\ IF ok
       THEN /\ turn_pc' = "loop"
            /\ child' = "running"
            /\ turn_result' = turn_result
       ELSE /\ turn_pc' = "done"
            /\ child' = child
            /\ turn_result' = AgentResultOf("LlmError", <<"Failed to start">>)
  /\ UNCHANGED <<backend_id, exit_success, cancel_flag, cancel_at, lines_read,
                 text_buffer, final_result, had_error, final_text_seen>>
  /\ UNCHANGED notTurn

\* MissionRunner::cancel: `token.cancel()` while the turn is in flight
TurnCancel ==
  /\ turn_pc \notin {"idle", "done"}
  /\ ~cancel_flag
  /\ cancel_flag' = TRUE
  /\ cancel_at' = turn_pc
  /\ UNCHANGED <<turn_pc, backend_id, child, exit_success, lines_read,
                 text_buffer, final_result, had_error, final_text_seen,
                 turn_result>>
  /\ UNCHANGED notTurn

\* the child process exits by itself
ChildExit(success) ==
  /\ child = "running"
  /\ child' = "exited"
  /\ exit_success' = success
  /\ UNCHANGED <<turn_pc, backend_id, cancel_flag, cancel_at, lines_read,
                 text_buffer, final_result, had_error, final_text_seen,
                 turn_result>>
  /\ UNCHANGED notTurn

\* select!: `_ = cancel.cancelled()` => child.kill(), return Cancelled
TurnSelectCancelled ==
  /\ turn_pc = "loop"
  /\ cancel_flag
  /\ child' = "killed"
  /\ turn_pc' = "done"
  /\ turn_result' = AgentResultOf("Cancelled", <<"Cancelled">>)
  /\ UNCHANGED <<backend_id, exit_success, cancel_flag, cancel_at, lines_read,
                 text_buffer, final_result, had_error, final_text_seen>>
  /\ UNCHANGED notTurn

\* run_claudecode_turn, select!: `lines.next_line()` is Ok(Some(line)).  The
\* select is not biased: with the token cancelled and a line ready either
\* branch may run.
ClaudeReadLine(ev) ==
  /\ turn_pc = "loop"
  /\ backend_id = "claudecode"
  /\ lines_read < MaxLines
  /\ lines_read' = lines_read + 1
  /\ text_buffer' = IF ev.type = "text_delta" THEN text_buffer \o ev.text
                                                ELSE text_buffer
  /\ final_result' =
       CASE ev.type = "assistant" /\ ev.text # <<>> -> ev.text
         [] ev.type = "result" /\ ev.text # <<>> -> ev.text
         [] ev.type = "result_error" ->
              IF ev.text # <<>> THEN ev.text ELSE <<"Unknown error">>
         [] OTHER -> final_result
  /\ final_text_seen' =
       (final_text_seen \/ (ev.type \in {"assistant", "result", "result_error"}
                              /\ ev.text # <<>>))
  /\ had_error' = (had_error \/ ev.type = "result_error")
  /\ turn_pc' = IF ev.type \in {"result", "result_error"} THEN "wait_child"
                                                            ELSE "loop"
  /\ UNCHANGED <<backend_id, child, exit_success, cancel_flag, cancel_at,
                 turn_result>>
  /\ UNCHANGED notTurn

\* run_opencode_turn, select!: `stdout_lines.next_line()` is Ok(Some(line))
OpenCodeReadLine(line) ==
  /\ turn_pc = "loop"
  /\ backend_id = "opencode"
  /\ lines_read < MaxLines
  /\ lines_read' = lines_read + 1
  /\ final_result' =
       IF line = <<>> THEN final_result
       ELSE IF final_result = <<>> THEN line
       ELSE final_result \o <<"LF">> \o line
  /\ had_error' = (had_error \/ line = <<"Error:">>)
  /\ UNCHANGED <<turn_pc, backend_id, child, exit_success, cancel_flag,
                 cancel_at, text_buffer, final_text_seen, turn_result>>
  /\ UNCHANGED notTurn

\* select!: next_line() is Ok(None) or Err: break out of the loop
TurnReadEof ==
  /\ turn_pc = "loop"
  /\ child # "none"
  /\ turn_pc' = IF backend_id = "opencode" THEN "wait_stderr" ELSE "wait_child"
  /\ UNCHANGED <<backend_id, child, exit_success, cancel_flag, cancel_at,
                 lines_read, text_buffer, final_result, had_error,
                 final_text_seen, turn_result>>
  /\ UNCHANGED notTurn

\* run_opencode_turn: `handle.await` on the stderr reader, which ends when
\* the child has closed its stderr
TurnStderrJoined ==
  /\ turn_pc = "wait_stderr"
  /\ child = "exited"
  /\ turn_pc' = "wait_child"
  /\ UNCHANGED <<backend_id, child, exit_success, cancel_flag, cancel_at,
                 lines_read, text_buffer, final_result, had_error,
                 final_text_seen, turn_result>>
  /\ UNCHANGED notTurn

\* `child.wait().await` returns and the function builds its AgentResult
TurnChildWaited ==
  /\ turn_pc = "wait_child"
  /\ child = "exited"
  /\ LET failed == backend_id = "opencode" /\ ~exit_success
         err == had_error \/ failed
         out == IF failed /\ final_result = <<>>
                  THEN <<"exited with status">>
                  ELSE final_result
     IN /\ had_error' = err
        /\ final_result' = out
        /\ turn_result' = IF err THEN AgentResultOf("LlmError", out)
                                 ELSE AgentResultOf("Success", out)
  /\ turn_pc' = "done"
  /\ UNCHANGED <<backend_id, child, exit_success, cancel_flag, cancel_at,
                 lines_read, text_buffer, final_text_seen>>
  /\ UNCHANGED notTurn

TurnNext ==
  \/ \E b \in BackendIds : TurnStart(b)
  \/ \E ok \in BOOLEAN : TurnSpawn(ok)
  \/ TurnCancel
  \/ \E success \in BOOLEAN : ChildExit(success)
  \/ TurnSelectCancelled
  \/ \E ev \in ClaudeEvents : ClaudeReadLine(ev)
  \/ \E line \in OpenCodeLines : OpenCodeReadLine(line)
  \/ TurnReadEof
  \/ TurnStderrJoined
  \/ TurnChildWaited

(***************************************************************************)
(* MissionRunner::check_health and the deliverables it looks at.           *)
(***************************************************************************)
\* `seconds_since > 60`
HEALTH_STALL_SECS == 60

\* seconds in one tick of the runner's clock: just past the stall threshold
SecsPerTick == HEALTH_STALL_SECS + 1

\* paths a mission message can name as deliverables
Paths == {"output/report.md", "output/data.csv"}

HealthInit ==
  /\ deliverables = {}
  /\ present = {}

\* DeliverableSet::missing_paths: the expected paths absent from the disk
missing_paths == deliverables \ present

\* what check_health returns in the current state
MissionHealthOf ==
  LET seconds_since == (now - last_activity) * SecsPerTick
  IN IF is_running /\ seconds_since > HEALTH_STALL_SECS
       THEN [kind |-> "Stalled", seconds_since_activity |-> seconds_since,
             last_state |-> state, missing |-> {}]
     ELSE IF /\ ~is_running
             /\ ~explicitly_completed
             /\ deliverables # {}
             /\ missing_paths # {}
       THEN [kind |-> "MissingDeliverables", seconds_since_activity |-> 0,
             last_state |-> state, missing |-> missing_paths]
     ELSE [kind |-> "Healthy", seconds_since_activity |-> 0,
           last_state |-> state, missing |-> {}]

\* MissionRunner::check_health (&self: nothing is written)
check_health ==
  /\ ret' = [op |-> "check_health", val |-> MissionHealthOf]
  /\ UNCHANGED <<state, queue, history, cancel_token, running_handle,
                 explicitly_completed, last_activity, tasks, cancelled,
                 submitted, now>>
  /\ UNCHANGED <<healthVars, hubVars, detVars, turnVars, ctlVars,
          streamVars, taskVars, execVars, cliVars>>

\* MissionRunner::set_initial_message: deliverables extracted from the message
set_initial_message(paths) ==
  /\ deliverables' = paths
  /\ ret' = [op |-> "set_initial_message", val |-> "unit"]
  /\ UNCHANGED <<state, queue, history, cancel_token, running_handle,
                 explicitly_completed, last_activity, tasks, cancelled,
                 submitted, now>>
  /\ UNCHANGED <<present, hubVars, detVars, turnVars, ctlVars,
          streamVars, taskVars, execVars, cliVars>>

\* a deliverable is written to the disk (by a turn or by anyone else)
CreateFile(p) ==
  /\ p \in deliverables
  /\ p \notin present
  /\ present' = present \cup {p}
  /\ UNCHANGED <<runnerVars, deliverables, hubVars, detVars, turnVars, ctlVars,
          streamVars, taskVars, execVars, cliVars>>

HealthNext ==
  \/ check_health
  \/ \E paths \in SUBSET Paths : set_initial_message(paths)
  \/ \E p \in Paths : CreateFile(p)
  \/ queue_message
  \/ start_next
  \/ poll_completion
  \/ \E t \in DOMAIN tasks : \E kind \in OutputKinds : TurnReturn(t, kind)
  \/ \E t \in DOMAIN tasks : TurnPanic(t)
  \/ RunnerTick

(***************************************************************************)
(* Control session: control_actor_loop (src/api/control.rs) and the turn   *)
(* it runs, TaskExecutor::run_loop (src/agents/leaf/executor.rs).          *)
(***************************************************************************)
\* AgentEvent::Status { state, queue_len }
StatusEv(st, q) == [type |-> "Status", a |-> st, b |-> q]
\* AgentEvent::UserMessage { id, .. }
UserMessageEv(id) == [type |-> "UserMessage", a |-> id, b |-> 0]
\* AgentEvent::AssistantMessage { content, success, .. } of the turn of msg
AssistantMessageEv(msg, success) ==
  [type |-> "AssistantMessage", a |-> msg, b |-> success]
\* AgentEvent::ToolCall { tool_call_id, .. }
ToolCallEv(id) == [type |-> "ToolCall", a |-> id, b |-> 0]
\* AgentEvent::Error { message }
ErrorEv(message) == [type |-> "Error", a |-> message, b |-> 0]

NoStatus == [state |-> "none", queue_len |-> 0]

\* the task spawned for run_single_control_turn(.., hist_snapshot, msg)
NewTurn(msg, hist) ==
  [msg |-> msg, hist |-> hist, pc |-> "run", cancelled |-> FALSE,
   called |-> FALSE, q |-> 0, result |-> "none"]

ControlInit ==
  /\ actor_pc = "select"
  /\ actor_unsent = NoStatus
  /\ ctl_queue = <<>>
  /\ ctl_history = <<>>
  /\ running = NoneOpt
  /\ running_cancel = NoneOpt
  /\ status_queue_len = 0
  /\ ctl_events = <<>>
  /\ turns = <<>>
  /\ user_sent = 0
  /\ other_sent = 0

\* StartNextOrIdle publishing the queue length read before the pop
StartNextOrIdle_stale_len(q, hist, evs) ==
  IF q # <<>>
    THEN /\ ctl_queue' = Tail(q)
         /\ status_state' = "Running"
         /\ status_queue_len' = Len(q)
         /\ ctl_events' = evs \o <<StatusEv("Running", Len(q)),
                                   UserMessageEv(Head(q))>>
         /\ turns' = Append(turns, NewTurn(Head(q), hist))
         /\ running' = Len(turns) + 1
         /\ running_cancel' = Len(turns) + 1
    ELSE /\ ctl_queue' = q
         /\ status_state' = "Idle"
         /\ status_queue_len' = 0
         /\ ctl_events' = evs \o <<StatusEv("Idle", 0)>>
         /\ turns' = turns
         /\ running' = NoneOpt
         /\ running_cancel' = NoneOpt

\* `if let Some((mid, msg)) = queue.pop_front() { set_and_emit_status(Running,
\* queue.len()); send UserMessage; running = Some(spawn(..)) } else {
\* set_and_emit_status(Idle, 0) }`, for a queue q, a history hist and the
\* events evs sent so far.  No turn is running here, so nobody else writes
\* the status between the store and the send.
StartNextOrIdle(q, hist, evs) ==
  IF q # <<>>
    THEN /\ ctl_queue' = Tail(q)
         /\ status_state' = "Running"
         /\ status_queue_len' = Len(Tail(q))
         /\ ctl_events' = evs \o <<StatusEv("Running", Len(Tail(q))),
                                   UserMessageEv(Head(q))>>
         /\ turns' = Append(turns, NewTurn(Head(q), hist))
         /\ running' = Len(turns) + 1
         /\ running_cancel' = Len(turns) + 1
    ELSE /\ ctl_queue' = q
         /\ status_state' = "Idle"
         /\ status_queue_len' = 0
         /\ ctl_events' = evs \o <<StatusEv("Idle", 0)>>
         /\ turns' = turns
         /\ running' = NoneOpt
         /\ running_cancel' = NoneOpt

\* ControlCommand::UserMessage: push_back, then set_and_emit_status stores
\* (Running if a turn is running else Idle, queue.len()) in the cell
ActorUserMessage ==
  /\ actor_pc = "select"
  /\ user_sent < MaxUserMsgs
  /\ user_sent' = user_sent + 1
  /\ ctl_queue' = Append(ctl_queue, user_sent + 1)
  /\ status_state' = IF running # NoneOpt THEN "Running" ELSE "Idle"
  /\ status_queue_len' = Len(ctl_queue) + 1
  /\ actor_unsent' = [state |-> IF running # NoneOpt THEN "Running" ELSE "Idle",
                      queue_len |-> Len(ctl_queue) + 1]
  /\ actor_pc' = "emit"
  /\ UNCHANGED <<ctl_history, running, running_cancel, ctl_events, turns,
                 other_sent>>
  /\ UNCHANGED <<pending, hub_lock, chans, calls, resolvers, announced, regs>>
  /\ UNCHANGED notControl

\* ActorEmitStatus without the `if running.is_none()` test
ActorEmitStatus_unguarded ==
  /\ actor_pc = "emit"
  /\ actor_pc' = "select"
  /\ actor_unsent' = NoStatus
  /\ StartNextOrIdle(ctl_queue, ctl_history,
                     Append(ctl_events,
                            StatusEv(actor_unsent.state, actor_unsent.queue_len)))
  /\ UNCHANGED <<ctl_history, user_sent, other_sent>>
  /\ UNCHANGED <<pending, hub_lock, chans, calls, resolvers, announced, regs>>
  /\ UNCHANGED notControl

\* ControlCommand::UserMessage, continued: set_and_emit_status broadcasts the
\* stored status; then `if running.is_none()` the message is popped and its
\* turn started
ActorEmitStatus ==
  /\ actor_pc = "emit"
  /\ actor_pc' = "select"
  /\ actor_unsent' = NoStatus
  /\ LET evs == Append(ctl_events,
                       StatusEv(actor_unsent.state, actor_unsent.queue_len))
     IN IF running = NoneOpt
          THEN StartNextOrIdle(ctl_queue, ctl_history, evs)
          ELSE /\ ctl_events' = evs
               /\ UNCHANGED <<ctl_queue, status_state, status_queue_len, turns,
                              running, running_cancel>>
  /\ UNCHANGED <<ctl_history, user_sent, other_sent>>
  /\ UNCHANGED <<pending, hub_lock, chans, calls, resolvers, announced, regs>>
  /\ UNCHANGED notControl

\* ActorToolResult handing a result whose id is unknown to whatever call is
\* pending
ActorToolResult_resolves_any(id) ==
  /\ actor_pc = "select"
  /\ other_sent < MaxOtherCmds
  /\ other_sent' = other_sent + 1
  /\ hub_lock = NoHolder
  /\ IF pending[id] = 0
       THEN /\ ctl_events' = Append(ctl_events, ErrorEv("Unknown tool_call_id"))
            /\ pending' = [i \in CallIds |-> 0]
            /\ chans' = [c \in Calls |->
                           IF \E i \in CallIds : pending[i] = c
                             THEN [chans[c] EXCEPT !.val = ValueOf(other_sent + 1)]
                             ELSE chans[c]]
       ELSE /\ pending' = [pending EXCEPT ![id] = 0]
            /\ chans' = SenderSend(pending[id], ValueOf(other_sent + 1))
            /\ ctl_events' = ctl_events
  /\ UNCHANGED <<actor_pc, actor_unsent, ctl_queue, ctl_history, running,
                 running_cancel, status_queue_len, turns, user_sent>>
  /\ UNCHANGED <<hub_lock, calls, resolvers, announced, regs, status_state>>
  /\ UNCHANGED notControl

\* ControlCommand::ToolResult: `tool_hub.resolve(&tool_call_id, result)`, and
\* an Error event when it returns Err
ActorToolResult(id) ==
  /\ actor_pc = "select"
  /\ other_sent < MaxOtherCmds
  /\ other_sent' = other_sent + 1
  /\ hub_lock = NoHolder
  /\ IF pending[id] = 0
       THEN /\ ctl_events' = Append(ctl_events, ErrorEv("Unknown tool_call_id"))
            /\ UNCHANGED <<pending, chans>>
       ELSE /\ pending' = [pending EXCEPT ![id] = 0]
            /\ chans' = SenderSend(pending[id], ValueOf(other_sent + 1))
            /\ ctl_events' = ctl_events
  /\ UNCHANGED <<actor_pc, actor_unsent, ctl_queue, ctl_history, running,
                 running_cancel, status_queue_len, turns, user_sent>>
  /\ UNCHANGED <<hub_lock, calls, resolvers, announced, regs, status_state>>
  /\ UNCHANGED notControl

\* ActorCancel putting the cancelled turn's message back at the head of the
\* queue, to be tried again
ActorCancel_requeues ==
  /\ actor_pc = "select"
  /\ other_sent < MaxOtherCmds
  /\ other_sent' = other_sent + 1
  /\ IF running_cancel # NoneOpt
       THEN /\ turns' = [turns EXCEPT ![running_cancel].cancelled = TRUE]
            /\ ctl_queue' = <<turns[running_cancel].msg>> \o ctl_queue
            /\ ctl_events' = Append(ctl_events, ErrorEv("Cancellation requested"))
       ELSE /\ turns' = turns
            /\ ctl_queue' = ctl_queue
            /\ ctl_events' = Append(ctl_events,
                                    ErrorEv("No running task to cancel"))
  /\ UNCHANGED <<actor_pc, actor_unsent, ctl_history, running,
                 running_cancel, status_queue_len, user_sent>>
  /\ UNCHANGED hubVars
  /\ UNCHANGED notControl

\* ControlCommand::Cancel
ActorCancel ==
  /\ actor_pc = "select"
  /\ other_sent < MaxOtherCmds
  /\ other_sent' = other_sent + 1
  /\ IF running_cancel # NoneOpt
       THEN /\ turns' = [turns EXCEPT ![running_cancel].cancelled = TRUE]
            /\ ctl_events' = Append(ctl_events, ErrorEv("Cancellation requested"))
       ELSE /\ turns' = turns
            /\ ctl_events' = Append(ctl_events,
                                    ErrorEv("No running task to cancel"))
  /\ UNCHANGED <<actor_pc, actor_unsent, ctl_queue, ctl_history, running,
                 running_cancel, status_queue_len, user_sent>>
  /\ UNCHANGED hubVars
  /\ UNCHANGED notControl

\* the JoinHandle of the running turn is ready
TurnDone(t) == turns[t].pc \in {"done", "panicked"}

\* ActorFinished leaving the select! arm after the Error event of a failed join
ActorFinished_stops_after_join_error ==
  /\ actor_pc = "select"
  /\ running # NoneOpt
  /\ TurnDone(running)
  /\ LET t == turns[running]
         hist == ctl_history \o << <<"user", t.msg>>,
                                   <<"assistant", <<t.msg, t.result>> >> >>
     IN IF t.pc = "done"
          THEN /\ ctl_history' = hist
               /\ StartNextOrIdle(ctl_queue, hist,
                                  Append(ctl_events,
                                         AssistantMessageEv(t.msg, t.result = "success")))
          ELSE /\ ctl_events' = Append(ctl_events,
                                       ErrorEv("Control session task join failed"))
               /\ running' = NoneOpt
               /\ running_cancel' = NoneOpt
               /\ UNCHANGED <<ctl_history, ctl_queue, status_state,
                              status_queue_len, turns>>
  /\ UNCHANGED <<actor_pc, actor_unsent, user_sent, other_sent>>
  /\ UNCHANGED <<pending, hub_lock, chans, calls, resolvers, announced, regs>>
  /\ UNCHANGED notControl

\* select!: `finished = handle.await, if running.is_some()`: history and
\* AssistantMessage on Ok, an Error event on Err(JoinError); then the next
\* queued message is started, or the status becomes Idle
ActorFinished ==
  /\ actor_pc = "select"
  /\ running # NoneOpt
  /\ TurnDone(running)
  /\ LET t == turns[running]
         ok == t.pc = "done"
         hist == IF ok
                   THEN ctl_history \o << <<"user", t.msg>>,
                                          <<"assistant", <<t.msg, t.result>> >> >>
                   ELSE ctl_history
         evs == IF ok
                  THEN Append(ctl_events,
                              AssistantMessageEv(t.msg, t.result = "success"))
                  ELSE Append(ctl_events, ErrorEv("Control session task join failed"))
     IN /\ ctl_history' = hist
        /\ StartNextOrIdle(ctl_queue, hist, evs)
  /\ UNCHANGED <<actor_pc, actor_unsent, user_sent, other_sent>>
  /\ UNCHANGED <<pending, hub_lock, chans, calls, resolvers, announced, regs>>
  /\ UNCHANGED notControl

\* TaskExecutor::run_loop: a ui_optionList tool call of the running turn:
\* `hub.register(tool_call.id)` and then the ToolCall event.  The turn of
\* the t-th message names its call t and waits on channel t.
CtlToolCall(t) ==
  /\ t = running
  /\ turns[t].pc = "run"
  /\ ~turns[t].called
  /\ t \in CallIds /\ t \in Calls
  /\ hub_lock = NoHolder
  /\ pending' = InsertPending(t, t)
  /\ chans' = [DropReplacedSender(t, chans) EXCEPT ![t] = NewChannel]
  /\ regs' = [regs EXCEPT ![t] = @ + 1]
  /\ announced' = announced \cup {t}
  /\ ctl_events' = Append(ctl_events, ToolCallEv(t))
  /\ turns' = [turns EXCEPT ![t].pc = "announced", ![t].called = TRUE]
  /\ UNCHANGED <<actor_pc, actor_unsent, ctl_queue, ctl_history, running,
                 running_cancel, status_queue_len, user_sent, other_sent>>
  /\ UNCHANGED <<hub_lock, calls, resolvers, status_state>>
  /\ UNCHANGED notControl

\* `let mut s = status.write().await; s.state = WaitingForTool;
\*  let q = s.queue_len; drop(s);`
CtlStoreWaiting(t) ==
  /\ t = running
  /\ turns[t].pc = "announced"
  /\ status_state' = "WaitingForTool"
  /\ turns' = [turns EXCEPT ![t].pc = "unsent_waiting", ![t].q = status_queue_len]
  /\ UNCHANGED <<actor_pc, actor_unsent, ctl_queue, ctl_history, running,
                 running_cancel, status_queue_len, ctl_events, user_sent,
                 other_sent>>
  /\ UNCHANGED <<pending, hub_lock, chans, calls, resolvers, announced, regs>>
  /\ UNCHANGED notControl

\* `events.send(AgentEvent::Status { state, queue_len: q })` after drop(s):
\* WaitingForTool before the wait, Running after it
CtlSendStatus(t) ==
  /\ t = running
  /\ turns[t].pc \in {"unsent_waiting", "unsent_running"}
  /\ ctl_events' =
       Append(ctl_events,
              StatusEv(IF turns[t].pc = "unsent_waiting"
                         THEN "WaitingForTool" ELSE "Running", turns[t].q))
  /\ turns' = [turns EXCEPT
                 ![t].pc = IF turns[t].pc = "unsent_waiting"
                             THEN "waiting" ELSE "run"]
  /\ UNCHANGED <<actor_pc, actor_unsent, ctl_queue, ctl_history, running,
                 running_cancel, status_queue_len, user_sent, other_sent>>
  /\ UNCHANGED hubVars
  /\ UNCHANGED notControl

\* select!: `v = rx => v` with Ok(v): the status cell is written Running
CtlRecvOk(t) ==
  /\ t = running
  /\ turns[t].pc = "waiting"
  /\ chans[t].val # 0
  /\ status_state' = "Running"
  /\ turns' = [turns EXCEPT ![t].pc = "unsent_running", ![t].q = status_queue_len]
  /\ UNCHANGED <<actor_pc, actor_unsent, ctl_queue, ctl_history, running,
                 running_cancel, status_queue_len, ctl_events, user_sent,
                 other_sent>>
  /\ UNCHANGED <<pending, hub_lock, chans, calls, resolvers, announced, regs>>
  /\ UNCHANGED notControl

\* select!: `_ = token.cancelled() => return ExecutionLoopResult { output:
\* "Cancelled", success: false, .. }`: the receiver is dropped, the status
\* cell is not written
CtlCancelledWaiting(t) ==
  /\ t = running
  /\ turns[t].pc = "waiting"
  /\ turns[t].cancelled
  /\ chans' = [chans EXCEPT ![t].rxDropped = TRUE]
  /\ turns' = [turns EXCEPT ![t].pc = "done", ![t].result = "cancelled"]
  /\ UNCHANGED ctlVarsButTurns
  /\ UNCHANGED <<pending, hub_lock, calls, resolvers, announced, regs,
                 status_state>>
  /\ UNCHANGED notControl

\* run_single_control_turn returns an AgentResult: success, failure, or the
\* "Cancelled" result of the check at the top of the agent loop
CtlTurnReturn(t, kind) ==
  /\ t = running
  /\ turns[t].pc = "run"
  /\ kind = "cancelled" => turns[t].cancelled
  /\ turns' = [turns EXCEPT ![t].pc = "done", ![t].result = kind]
  /\ UNCHANGED ctlVarsButTurns
  /\ UNCHANGED hubVars
  /\ UNCHANGED notControl

\* the turn's task panics: its JoinHandle yields Err(JoinError)
CtlTurnPanic(t) ==
  /\ t = running
  /\ turns[t].pc = "run"
  /\ turns' = [turns EXCEPT ![t].pc = "panicked"]
  /\ UNCHANGED ctlVarsButTurns
  /\ UNCHANGED hubVars
  /\ UNCHANGED notControl

ControlNext ==
  \/ ActorUserMessage
  \/ ActorEmitStatus
  \/ \E id \in CallIds : ActorToolResult(id)
  \/ ActorCancel
  \/ ActorFinished
  \/ \E t \in DOMAIN turns : CtlToolCall(t)
  \/ \E t \in DOMAIN turns : CtlStoreWaiting(t)
  \/ \E t \in DOMAIN turns : CtlSendStatus(t)
  \/ \E t \in DOMAIN turns : CtlRecvOk(t)
  \/ \E t \in DOMAIN turns : CtlCancelledWaiting(t)
  \/ \E t \in DOMAIN turns :
       \E kind \in {"success", "failure", "cancelled"} : CtlTurnReturn(t, kind)
  \/ \E t \in DOMAIN turns : CtlTurnPanic(t)

(***************************************************************************)
(* Event stream of a CLI backend: AmpBackend::send_message_streaming and   *)
(* ClaudeCodeBackend::send_message_streaming (the same code), fed by the   *)
(* stdout reader of AmpClient::execute_message.                            *)
(***************************************************************************)
\* a stdout line: empty, not valid JSON of the event schema, or an event
Lines == {"empty", "garbage", "system", "text", "assistant"}

\* `serde_json::from_str::<AmpEvent>(&line)` is Ok
Parses(line) == line \in {"system", "text", "assistant"}

\* convert_cli_event: the ExecutionEvents of one CLI event
convert_cli_event(event) ==
  CASE event = "system" -> <<>>
    [] event = "text" -> <<"TextDelta">>
    [] event = "assistant" -> <<"TextDelta", "ToolCall">>

StreamInit ==
  /\ rd_pc = "reading"
  /\ emitted = <<>>
  /\ cli_chan = <<>>
  /\ cli_closed = FALSE
  /\ conv_pc = "recv"
  /\ conv_batch = <<>>
  /\ out_chan = <<>>
  /\ rx_dropped = FALSE
  /\ delivered = <<>>

\* RdLine ending the loop at a line that does not parse
RdLine_stops_at_garbage(line) ==
  /\ rd_pc = "reading"
  /\ Len(emitted) < MaxStreamLines
  /\ emitted' = Append(emitted, line)
  /\ cli_chan' = IF Parses(line) THEN Append(cli_chan, line) ELSE cli_chan
  /\ rd_pc' = IF line = "garbage" THEN "wait_child" ELSE rd_pc
  /\ UNCHANGED <<cli_closed, conv_pc, conv_batch, out_chan, rx_dropped,
                 delivered>>
  /\ UNCHANGED notStream

\* reader: `while let Ok(Some(line)) = lines.next_line().await`: an empty
\* line is skipped, a line that does not parse is logged, an event is sent
\* (the conversion task holds the Receiver until the Sender is dropped, so
\* the send does not fail)
RdLine(line) ==
  /\ rd_pc = "reading"
  /\ Len(emitted) < MaxStreamLines
  /\ emitted' = Append(emitted, line)
  /\ cli_chan' = IF Parses(line) THEN Append(cli_chan, line) ELSE cli_chan
  /\ UNCHANGED <<rd_pc, cli_closed, conv_pc, conv_batch, out_chan, rx_dropped,
                 delivered>>
  /\ UNCHANGED notStream

\* reader: next_line() is Ok(None) (end of stream) or Err: the loop ends
RdEof ==
  /\ rd_pc = "reading"
  /\ rd_pc' = "wait_child"
  /\ UNCHANGED <<emitted, cli_chan, cli_closed, conv_pc, conv_batch, out_chan,
                 rx_dropped, delivered>>
  /\ UNCHANGED notStream

\* reader: `child.wait().await` returns, the task ends and drops tx
RdChildWaited ==
  /\ rd_pc = "wait_child"
  /\ rd_pc' = "done"
  /\ cli_closed' = TRUE
  /\ UNCHANGED <<emitted, cli_chan, conv_pc, conv_batch, out_chan, rx_dropped,
                 delivered>>
  /\ UNCHANGED notStream

\* conversion task: `while let Some(event) = amp_rx.recv().await` and
\* `convert_cli_event(event, ..)`
ConvRecv ==
  /\ conv_pc = "recv"
  /\ cli_chan # <<>>
  /\ cli_chan' = Tail(cli_chan)
  /\ conv_batch' = convert_cli_event(Head(cli_chan))
  /\ conv_pc' = IF convert_cli_event(Head(cli_chan)) = <<>> THEN "recv"
                                                             ELSE "sending"
  /\ UNCHANGED <<rd_pc, emitted, cli_closed, out_chan, rx_dropped, delivered>>
  /\ UNCHANGED notStream

\* conversion task: `if tx.send(exec_event).await.is_err() { break; }`: the
\* break leaves the for loop over exec_events, not the while loop
ConvSend ==
  /\ conv_pc = "sending"
  /\ IF rx_dropped
       THEN /\ conv_batch' = <<>>
            /\ out_chan' = out_chan
       ELSE /\ conv_batch' = Tail(conv_batch)
            /\ out_chan' = Append(out_chan, Head(conv_batch))
  /\ conv_pc' = IF conv_batch' = <<>> THEN "recv" ELSE "sending"
  /\ UNCHANGED <<rd_pc, emitted, cli_chan, cli_closed, rx_dropped, delivered>>
  /\ UNCHANGED notStream

\* ConvClosed without the final send
ConvClosed_silent ==
  /\ conv_pc = "recv"
  /\ cli_chan = <<>>
  /\ cli_closed
  /\ conv_pc' = "done"
  /\ UNCHANGED <<rd_pc, emitted, cli_chan, cli_closed, conv_batch, out_chan,
                 rx_dropped, delivered>>
  /\ UNCHANGED notStream

\* conversion task: recv() is None; `let _ = tx.send(MessageComplete).await`
ConvClosed ==
  /\ conv_pc = "recv"
  /\ cli_chan = <<>>
  /\ cli_closed
  /\ conv_pc' = "done"
  /\ out_chan' = IF rx_dropped THEN out_chan
                               ELSE Append(out_chan, "MessageComplete")
  /\ UNCHANGED <<rd_pc, emitted, cli_chan, cli_closed, conv_batch, rx_dropped,
                 delivered>>
  /\ UNCHANGED notStream

\* the caller receives the next ExecutionEvent of the stream
ConsumerRecv ==
  /\ ~rx_dropped
  /\ out_chan # <<>>
  /\ delivered' = Append(delivered, Head(out_chan))
  /\ out_chan' = Tail(out_chan)
  /\ UNCHANGED <<rd_pc, emitted, cli_chan, cli_closed, conv_pc, conv_batch,
                 rx_dropped>>
  /\ UNCHANGED notStream

\* the caller drops the Receiver: what is queued in the channel is lost
ConsumerDrop ==
  /\ ~rx_dropped
  /\ rx_dropped' = TRUE
  /\ out_chan' = <<>>
  /\ UNCHANGED <<rd_pc, emitted, cli_chan, cli_closed, conv_pc, conv_batch,
                 delivered>>
  /\ UNCHANGED notStream

StreamNext ==
  \/ \E line \in Lines : RdLine(line)
  \/ RdEof
  \/ RdChildWaited
  \/ ConvRecv
  \/ ConvSend
  \/ ConvClosed
  \/ ConsumerRecv
  \/ ConsumerDrop

(***************************************************************************)
(* Tasks: Task::start / complete / fail / cancel (src/task/task.rs).       *)
(***************************************************************************)
Tasks == 1..NumTasks

\* reasons given to Task::fail
FailReasons == {"timeout", "crash"}

\* TaskStatus
TaskStatusOf(tag, reason) == [tag |-> tag, reason |-> reason]

\* TaskStatus::is_terminal
is_terminal(st) == st.tag \in {"Completed", "Failed", "Cancelled"}

\* TaskStatus::is_active
is_active(st) == st.tag \in {"Pending", "Running"}

\* Task::new: `status: TaskStatus::Pending`
TaskInit ==
  /\ task_status = [i \in Tasks |-> TaskStatusOf("Pending", "")]
  /\ task_ret = [op |-> "none", task |-> 0, val |-> "none"]

\* a transition of task i to status `to`, allowed when `ok`
Transition(op, i, ok, to) ==
  /\ task_status' = IF ok THEN [task_status EXCEPT ![i] = to] ELSE task_status
  /\ task_ret' = [op |-> op, task |-> i,
                  val |-> IF ok THEN "Ok" ELSE "InvalidTransition"]

\* Task::start
Task_start(i) ==
  /\ Transition("start", i, task_status[i].tag = "Pending",
                TaskStatusOf("Running", ""))
  /\ UNCHANGED notTask

\* Task::complete
Task_complete(i) ==
  /\ Transition("complete", i, task_status[i].tag = "Running",
                TaskStatusOf("Completed", ""))
  /\ UNCHANGED notTask

\* Task::fail
Task_fail(i, reason) ==
  /\ Transition("fail", i, task_status[i].tag = "Running",
                TaskStatusOf("Failed", reason))
  /\ UNCHANGED notTask

\* Task::cancel without the is_active test
Task_cancel_always(i) ==
  /\ Transition("cancel", i, TRUE, TaskStatusOf("Cancelled", ""))
  /\ UNCHANGED notTask

\* Task::cancel
Task_cancel(i) ==
  /\ Transition("cancel", i, is_active(task_status[i]),
                TaskStatusOf("Cancelled", ""))
  /\ UNCHANGED notTask

TaskNext ==
  \/ \E i \in Tasks : Task_start(i)
  \/ \E i \in Tasks : Task_complete(i)
  \/ \E i \in Tasks : \E reason \in FailReasons : Task_fail(i, reason)
  \/ \E i \in Tasks : Task_cancel(i)

(***************************************************************************)
(* The tool-calling loop: TaskExecutor::run_loop                           *)
(* (src/agents/leaf/executor.rs).  The loop borrows the task immutably, so *)
(* the task's budget is the same at every iteration.                       *)
(***************************************************************************)
\* ctx.max_iterations
MaxIterations == 3

\* budget caps and earlier spend of a task, in cents
BudgetCaps == {0, 2, 4}
EarlierSpends == {0, 2}

\* what one chat_completion costs: calculate_cost_cents of its usage, or the
\* heuristic 2
CallCosts == {0, 2}

\* what chat_completion answers: Err, tool calls, a final content, or nothing
ResponseKinds == {"err", "tools", "content", "empty"}

NoLoopResult == [output |-> "none", success |-> FALSE]

ExecInit ==
  /\ ex_pc = "new"
  /\ iteration = 0
  /\ total_cost_cents = 0
  /\ budget_total_cents = 0
  /\ budget_spent_cents = 0
  /\ ex_cancel = FALSE
  /\ llm_calls = 0
  /\ ex_result = NoLoopResult

\* Budget::remaining_cents: cap - spend, saturating at zero
budget_remaining_cents ==
  IF budget_spent_cents >= budget_total_cents
    THEN 0
    ELSE budget_total_cents - budget_spent_cents

\* `remaining == 0 && total_cost_cents > 0`
BudgetExhausted == budget_remaining_cents = 0 /\ total_cost_cents > 0

\* run_loop is entered for a task with the given budget
ExRunLoop(cap, spent) ==
  /\ ex_pc = "new"
  /\ ex_pc' = "loop"
  /\ budget_total_cents' = cap
  /\ budget_spent_cents' = spent
  /\ UNCHANGED <<iteration, total_cost_cents, ex_cancel, llm_calls, ex_result>>
  /\ UNCHANGED notExec

\* the cancellation token of the turn is cancelled
ExCancel ==
  /\ ex_pc = "loop"
  /\ ~ex_cancel
  /\ ex_cancel' = TRUE
  /\ UNCHANGED <<ex_pc, iteration, total_cost_cents, budget_total_cents,
                 budget_spent_cents, llm_calls, ex_result>>
  /\ UNCHANGED notExec

\* one iteration of `for iteration in 0..ctx.max_iterations`: the
\* cancellation check, the budget check, the LLM call with its cost
\* accounting, and the tool calls or the final response
ExIteration(kind, cost) ==
  /\ ex_pc = "loop"
  /\ iteration < MaxIterations
  /\ iteration' = iteration + 1
  /\ IF ex_cancel
       THEN /\ ex_result' = [output |-> "Cancelled", success |-> FALSE]
            /\ ex_pc' = "done"
            /\ UNCHANGED <<total_cost_cents, llm_calls>>
     ELSE IF BudgetExhausted
       THEN /\ ex_result' = [output |-> "Budget exhausted before task completion",
                             success |-> FALSE]
            /\ ex_pc' = "done"
            /\ UNCHANGED <<total_cost_cents, llm_calls>>
     ELSE /\ llm_calls' = llm_calls + 1
          /\ total_cost_cents' = IF kind = "err" THEN total_cost_cents
                                                 ELSE total_cost_cents + cost
          /\ ex_pc' = IF kind = "tools" THEN "loop" ELSE "done"
          /\ ex_result' =
               CASE kind = "err" -> [output |-> "LLM error", success |-> FALSE]
                 [] kind = "tools" -> ex_result
                 [] kind = "content" -> [output |-> "content", success |-> TRUE]
                 [] OTHER -> [output |-> "LLM returned empty response",
                              success |-> FALSE]
  /\ UNCHANGED <<budget_total_cents, budget_spent_cents, ex_cancel>>
  /\ UNCHANGED notExec

\* the for loop has run ctx.max_iterations times
ExMaxIterations ==
  /\ ex_pc = "loop"
  /\ iteration = MaxIterations
  /\ ex_pc' = "done"
  /\ ex_result' = [output |-> "Max iterations reached", success |-> FALSE]
  /\ UNCHANGED <<iteration, total_cost_cents, budget_total_cents,
                 budget_spent_cents, ex_cancel, llm_calls>>
  /\ UNCHANGED notExec

ExecNext ==
  \/ \E cap \in BudgetCaps : \E spent \in EarlierSpends : ExRunLoop(cap, spent)
  \/ ExCancel
  \/ \E kind \in ResponseKinds : \E cost \in CallCosts : ExIteration(kind, cost)
  \/ ExMaxIterations

(***************************************************************************)
(* The events of an OpenCode CLI turn (src/api/mission_runner.rs,          *)
(* run_opencode_turn).  The backend writes the assistant's text on stdout  *)
(* and its tool and error lines on stderr; run_opencode_turn forwards      *)
(* stdout itself and spawns a task that forwards stderr, both sending on   *)
(* the one broadcast channel.                                              *)
(***************************************************************************)

\* lines the backend writes during one turn
MaxWrites == 3

\* what a line is: assistant text goes to stdout, "TOOL.EXECUTE:",
\* "TOOL.RESULT:" and "SESSION.ERROR:" lines go to stderr
LineKinds == {"text", "tool_call", "tool_result", "error"}

PipeOf(kind) == IF kind = "text" THEN "stdout" ELSE "stderr"

CliInit ==
  /\ cl_written = <<>>
  /\ cl_stdout = <<>>
  /\ cl_stderr = <<>>
  /\ cl_exited = FALSE
  /\ cl_bus = <<>>
  /\ cl_main = "loop"
  /\ cl_err_task = "reading"
  /\ cl_err_line = 0
  /\ cl_cancel = FALSE
  /\ cl_abort = FALSE
  /\ cl_end = 0

\* the child process writes one more line on the pipe of its kind
CliWrite(kind) ==
  /\ ~cl_exited
  /\ Len(cl_written) < MaxWrites
  /\ cl_written' = Append(cl_written, kind)
  /\ IF PipeOf(kind) = "stdout"
       THEN /\ cl_stdout' = Append(cl_stdout, Len(cl_written) + 1)
            /\ UNCHANGED cl_stderr
       ELSE /\ cl_stderr' = Append(cl_stderr, Len(cl_written) + 1)
            /\ UNCHANGED cl_stdout
  /\ UNCHANGED <<cl_exited, cl_bus, cl_main, cl_err_task, cl_err_line,
                 cl_cancel, cl_abort, cl_end>>
  /\ UNCHANGED notCli

\* the child process exits: what it wrote stays readable, then both pipes end
CliExit ==
  /\ ~cl_exited
  /\ cl_exited' = TRUE
  /\ UNCHANGED <<cl_written, cl_stdout, cl_stderr, cl_bus, cl_main, cl_err_task,
                 cl_err_line, cl_cancel, cl_abort, cl_end>>
  /\ UNCHANGED notCli

\* MissionRunner::cancel cancels the turn's token
CliCancel ==
  /\ ~cl_cancel
  /\ cl_main # "done"
  /\ cl_cancel' = TRUE
  /\ UNCHANGED <<cl_written, cl_stdout, cl_stderr, cl_exited, cl_bus, cl_main,
                 cl_err_task, cl_err_line, cl_abort, cl_end>>
  /\ UNCHANGED notCli

\* select! arm stdout_lines.next_line() => Ok(Some(line)): the text delta is
\* sent as a Thinking event
CliStdoutLine ==
  /\ cl_main = "loop"
  /\ cl_stdout # <<>>
  /\ cl_bus' = Append(cl_bus, [n |-> Head(cl_stdout), ev |-> "thinking"])
  /\ cl_stdout' = Tail(cl_stdout)
  /\ UNCHANGED <<cl_written, cl_stderr, cl_exited, cl_main, cl_err_task,
                 cl_err_line, cl_cancel, cl_abort, cl_end>>
  /\ UNCHANGED notCli

\* select! arm stdout_lines.next_line() => Ok(None): end of stdout, the loop
\* breaks and the function awaits the stderr task
CliStdoutEof ==
  /\ cl_main = "loop"
  /\ cl_stdout = <<>>
  /\ cl_exited
  /\ cl_main' = "wait_stderr"
  /\ UNCHANGED <<cl_written, cl_stdout, cl_stderr, cl_exited, cl_bus,
                 cl_err_task, cl_err_line, cl_cancel, cl_abort, cl_end>>
  /\ UNCHANGED notCli

\* select! arm cancel.cancelled(): the child is killed, the stderr task's
\* handle is aborted and the turn returns Cancelled
CliCancelled ==
  /\ cl_main = "loop"
  /\ cl_cancel
  /\ cl_exited' = TRUE
  /\ cl_abort' = TRUE
  /\ cl_main' = "done"
  /\ cl_end' = Len(cl_bus)
  /\ UNCHANGED <<cl_written, cl_stdout, cl_stderr, cl_bus, cl_err_task,
                 cl_err_line, cl_cancel>>
  /\ UNCHANGED notCli

\* handle.await on the stderr task returns, the child is reaped and the turn
\* returns its result
CliJoined ==
  /\ cl_main = "wait_stderr"
  /\ cl_err_task = "done"
  /\ cl_main' = "done"
  /\ cl_end' = Len(cl_bus)
  /\ UNCHANGED <<cl_written, cl_stdout, cl_stderr, cl_exited, cl_bus,
                 cl_err_task, cl_err_line, cl_cancel, cl_abort>>
  /\ UNCHANGED notCli

\* the stderr task's stderr_lines.next_line().await yields a line
CliStderrRead ==
  /\ cl_err_task = "reading"
  /\ ~cl_abort
  /\ cl_stderr # <<>>
  /\ cl_err_line' = Head(cl_stderr)
  /\ cl_stderr' = Tail(cl_stderr)
  /\ cl_err_task' = "holding"
  /\ UNCHANGED <<cl_written, cl_stdout, cl_exited, cl_bus, cl_main, cl_cancel,
                 cl_abort, cl_end>>
  /\ UNCHANGED notCli

\* the body of the stderr task's loop for the line it holds: the event of the
\* line's kind, then the line again as a Thinking event.  No await lies
\* between the read and the sends, so an abort does not stop them.
CliStderrSend ==
  /\ cl_err_task = "holding"
  /\ cl_bus' = cl_bus \o <<[n |-> cl_err_line, ev |-> cl_written[cl_err_line]],
                           [n |-> cl_err_line, ev |-> "thinking"]>>
  /\ cl_err_line' = 0
  /\ cl_err_task' = "reading"
  /\ UNCHANGED <<cl_written, cl_stdout, cl_stderr, cl_exited, cl_main,
                 cl_cancel, cl_abort, cl_end>>
  /\ UNCHANGED notCli

\* the stderr task's next_line().await yields Ok(None): the task ends
CliStderrEof ==
  /\ cl_err_task = "reading"
  /\ ~cl_abort
  /\ cl_stderr = <<>>
  /\ cl_exited
  /\ cl_err_task' = "done"
  /\ UNCHANGED <<cl_written, cl_stdout, cl_stderr, cl_exited, cl_bus, cl_main,
                 cl_err_line, cl_cancel, cl_abort, cl_end>>
  /\ UNCHANGED notCli

\* the aborted stderr task is cancelled at its next await point
CliStderrAborted ==
  /\ cl_err_task = "reading"
  /\ cl_abort
  /\ cl_err_task' = "cancelled"
  /\ UNCHANGED <<cl_written, cl_stdout, cl_stderr, cl_exited, cl_bus, cl_main,
                 cl_err_line, cl_cancel, cl_abort, cl_end>>
  /\ UNCHANGED notCli

CliNext ==
  \/ \E kind \in LineKinds : CliWrite(kind)
  \/ CliExit
  \/ CliCancel
  \/ CliStdoutLine
  \/ CliStdoutEof
  \/ CliCancelled
  \/ CliJoined
  \/ CliStderrRead
  \/ CliStderrSend
  \/ CliStderrEof
  \/ CliStderrAborted

(***************************************************************************)
(* Specifications.                                                         *)
(***************************************************************************)
\* every component freshly constructed
Init ==
  /\ RunnerInit
  /\ HubInit
  /\ DetectorInit
  /\ TurnInit
  /\ HealthInit
  /\ ControlInit
  /\ StreamInit
  /\ TaskInit
  /\ ExecInit
  /\ CliInit

SpecRunner == Init /\ [][RunnerNext]_vars

SpecHub == Init /\ [][HubNext]_vars

SpecDetector == Init /\ [][DetectorNext]_vars

SpecTurn == Init /\ [][TurnNext]_vars

SpecHealth == Init /\ [][HealthNext]_vars

SpecControl == Init /\ [][ControlNext]_vars

\* the runtime runs every task that is ready: the actor when a status is to
\* be broadcast or the running turn's handle is ready, and the running turn
\* when it has a step to take; commands arrive or not as the clients please
ControlFairness ==
  /\ WF_vars(ActorEmitStatus)
  /\ WF_vars(ActorFinished)
  /\ WF_vars(\E t \in DOMAIN turns : CtlStoreWaiting(t))
  /\ WF_vars(\E t \in DOMAIN turns : CtlSendStatus(t))
  /\ WF_vars(\E t \in DOMAIN turns : CtlRecvOk(t) \/ CtlCancelledWaiting(t))
  /\ WF_vars(\E t \in DOMAIN turns :
               \/ \E kind \in {"success", "failure", "cancelled"} :
                    CtlTurnReturn(t, kind)
               \/ CtlTurnPanic(t))

SpecControlFair == SpecControl /\ ControlFairness

SpecStream == Init /\ [][StreamNext]_vars

\* the runtime runs the reader, the conversion task and the caller when they
\* have a step to take, and the child exits once its output has ended
StreamFairness ==
  /\ WF_vars(RdChildWaited)
  /\ WF_vars(ConvRecv)
  /\ WF_vars(ConvSend)
  /\ WF_vars(ConvClosed)
  /\ WF_vars(ConsumerRecv)

SpecStreamFair == SpecStream /\ StreamFairness

SpecTask == Init /\ [][TaskNext]_vars

SpecExec == Init /\ [][ExecNext]_vars

SpecCli == Init /\ [][CliNext]_vars

(***************************************************************************)
(* Claims about the MissionRunner, checked under SpecRunner.               *)
(***************************************************************************)

\* C1: at most one turn is in flight (spawned by start_next and not yet
\* collected by poll_completion) at any time, and a start_next called while the
\* state is Running or WaitingForTool returns false, pops nothing from the
\* queue and spawns nothing.
C1_OneTurnInFlight ==
  /\ [](Cardinality(InFlight) <= 1)
  /\ [][(start_next /\ is_running) =>
          /\ ret'.val = FALSE
          /\ queue' = queue
          /\ tasks' = tasks
          /\ running_handle' = running_handle]_vars

\* a start_next was refused while a turn was in flight and a message was queued
C1_Witness ==
  /\ is_running
  /\ Cardinality(InFlight) = 1
  /\ queue # <<>>
  /\ ret = [op |-> "start_next", val |-> FALSE]

\* the (user, assistant) pairs that the first n spawned turns have put in history
RECURSIVE PairsOfReturnedTurns(_)
PairsOfReturnedTurns(n) ==
  IF n = 0 THEN <<>>
  ELSE PairsOfReturnedTurns(n - 1) \o
       (IF tasks[n].collected /\ tasks[n].status = "ok"
          THEN << <<"user", tasks[n].msg>>, <<"assistant", tasks[n].output>> >>
          ELSE <<>>)

C3_CancelIdleNoOp ==
  [][(cancel /\ ~is_running) =>
       /\ ret'.val = "unit"
       /\ state' = state
       /\ queue' = queue
       /\ history' = history
       /\ tasks' = tasks
       /\ running_handle' = running_handle]_vars

\* cancel was called after the last turn had completed and been collected
C3_Witness ==
  /\ ret.op = "cancel"
  /\ ~is_running
  /\ cancel_token # NoneOpt
  /\ cancel_token \in cancelled
  /\ history # <<>>
  /\ InFlight = {}

\* the turn poll_completion collected last, when no turn is in flight
LastCollected == tasks[Len(tasks)]

C13_FinishedReentersQueued ==
  [][/\ (queue_message /\ state = "Finished") => state' = "Queued"
     /\ (start_next /\ state = "Finished" /\ queue # <<>>)
          => (ret'.val = TRUE /\ state' = "Running"
                /\ tasks'[Len(tasks')].msg = Head(queue))]_vars


(***************************************************************************)
(* Claims about the FrontendToolHub, checked under SpecHub.                *)
(***************************************************************************)

\* the resolve calls for id that found its entry (and removed it)
Takers(id) ==
  {p \in Resolvers : resolvers[p].id = id /\ resolvers[p].result = "Ok"}

\* the resolve calls for id that returned the unknown-id error
Refused(id) ==
  {p \in Resolvers : resolvers[p].id = id /\ resolvers[p].result = "Err"}

C5_RegisteredBeforeAnnounced ==
  \A id \in announced : regs[id] >= 1

(***************************************************************************)
(* Claims about the stall detector, checked under SpecDetector.            *)
(***************************************************************************)

\* the first periodic check at which inactivity has reached TOOL_STUCK_TIMEOUT
FirstCheckPastTimeout ==
  ((TOOL_STUCK_TIMEOUT + TOOL_STUCK_CHECK_INTERVAL - 1)
     \div TOOL_STUCK_CHECK_INTERVAL) * TOOL_STUCK_CHECK_INTERVAL

\* the backend has emitted nothing since the turn began, reports a tool other
\* than "question" as running at every check, and nobody has cancelled
SilentStuckBackend ==
  /\ oc_pc # "new"
  /\ backend_silent
  /\ all_stuck
  /\ ~oc_cancel

\* C6 as stated: with a backend silent from t = 0 that reports a running
\* non-"question" tool, the recovery attempt is made when inactivity crosses
\* TOOL_STUCK_TIMEOUT (t = 300 s), and with no hard-abort timeout configured
\* the detector never terminates the turn.
C6_RecoveryWhenThresholdCrossed ==
  SilentStuckBackend =>
    /\ clock > TOOL_STUCK_TIMEOUT => recoveries >= 1
    /\ recoveries >= 1 => first_recovery_at - TOOL_STUCK_TIMEOUT < Tick
    /\ tool_stuck_abort_timeout_secs = 0 => oc_pc = "streaming"

\* C6, amended: with a backend silent from t = 0 that reports a running
\* non-"question" tool, no recovery attempt is made before the first periodic
\* check (every TOOL_STUCK_CHECK_INTERVAL) at which inactivity has reached
\* TOOL_STUCK_TIMEOUT, the first attempt is made at that check (t = 360 s),
\* and with no hard-abort timeout configured the detector never terminates
\* the turn.
C6_RecoveryAtFirstCheckPastTimeout ==
  SilentStuckBackend =>
    /\ clock > FirstCheckPastTimeout => recoveries >= 1
    /\ recoveries >= 1 => first_recovery_at = FirstCheckPastTimeout
    /\ clock < FirstCheckPastTimeout => recoveries = 0
    /\ tool_stuck_abort_timeout_secs = 0 =>
         oc_pc = "streaming" /\ oc_result = NoResult

\* the silent backend has been asked to recover, no hard abort is configured,
\* and the turn is still streaming well after the attempt
C6_Witness ==
  /\ SilentStuckBackend
  /\ tool_stuck_abort_timeout_secs = 0
  /\ recoveries >= 1
  /\ clock >= first_recovery_at + TOOL_STUCK_TIMEOUT
  /\ oc_pc = "streaming"

\* C7: with a hard-abort timeout T > 0, a turn whose backend has produced no
\* event for more than T (one check interval of slack) has been terminated
\* with TerminalReason::Stalled, the session aborted, whatever the backend
\* reports about running tools.
C7_HardAbortCeiling ==
  /\ (tool_stuck_abort_timeout_secs > 0 /\ oc_pc = "streaming" /\ ~oc_cancel)
       => clock - inactive_since
            < tool_stuck_abort_timeout_secs + TOOL_STUCK_CHECK_INTERVAL
  /\ oc_result.reason = "Stalled" => (session_aborts >= 1 /\ handle_aborted)

\* C8: recovery attempts do not postpone the hard abort: with T > 0 and a
\* backend that reports a stuck tool at every check, a turn whose backend has
\* been inactive for more than T (one check interval of slack) has been
\* aborted, however many recovery attempts were made.
C8_RecoveryDoesNotPostponeAbort ==
  (/\ tool_stuck_abort_timeout_secs > 0
   /\ oc_pc = "streaming"
   /\ ~oc_cancel
   /\ all_stuck)
    => clock - inactive_since
         < tool_stuck_abort_timeout_secs + TOOL_STUCK_CHECK_INTERVAL

(***************************************************************************)
(* Claims about CLI turns, checked under SpecTurn.                         *)
(***************************************************************************)

\* C9: a turn that was cancelled while in flight (its child process spawned),
\* at whatever point, and has terminated, returned TerminalReason::Cancelled
\* and its child process was killed.
C9_CancelKillsAndReportsCancelled ==
  (turn_pc = "done" /\ cancel_flag /\ child # "none")
    => (turn_result.reason = "Cancelled" /\ child = "killed")

\* the text the turn accumulated from its stream
StreamBuffer ==
  IF backend_id = "claudecode" THEN text_buffer ELSE final_result

\* C10: for each backend adapter, a turn that streamed text deltas and then
\* completed successfully without a final text returns as its output the
\* accumulated text buffer.
C10_OutputFallsBackToBuffer ==
  (/\ turn_pc = "done"
   /\ turn_result.reason = "Success"
   /\ ~final_text_seen
   /\ StreamBuffer # <<>>)
    => turn_result.output = StreamBuffer

(***************************************************************************)
(* Claims about check_health, checked under SpecHealth.                    *)
(***************************************************************************)

\* poll_completion has collected at least one turn of the mission
TurnFinished == \E t \in DOMAIN tasks : tasks[t].collected

\* C11: check_health returns MissingDeliverables, listing exactly the absent
\* deliverable paths, when the mission has finished a turn, is not running,
\* is not explicitly completed and a deliverable is absent; it never returns
\* MissingDeliverables for a mission that is running, that is explicitly
\* completed, or that has not finished any turn yet.
C11_MissingDeliverablesOnlyAfterATurn ==
  /\ (/\ TurnFinished
      /\ ~is_running
      /\ ~explicitly_completed
      /\ deliverables \ present # {})
       => /\ MissionHealthOf.kind = "MissingDeliverables"
          /\ MissionHealthOf.missing = deliverables \ present
  /\ MissionHealthOf.kind = "MissingDeliverables"
       => (TurnFinished /\ ~is_running /\ ~explicitly_completed)

(***************************************************************************)
(* Claims about the control session, checked under SpecControl.            *)
(***************************************************************************)
\* the turns whose task has not ended
CtlInFlight == {t \in DOMAIN turns : ~TurnDone(t)}

\* the turns whose end the actor has handled
Handled == {t \in DOMAIN turns : TurnDone(t) /\ t # running}

\* the last event sent on the broadcast channel
LastEvent == ctl_events[Len(ctl_events)]

\* the Status events sent on the broadcast channel, in order
StatusEvents == SelectSeq(ctl_events, LAMBDA e : e.type = "Status")

\* C15: the stored status is WaitingForTool at every moment a turn is
\* suspended awaiting a hub resolution, whatever commands the actor handles
\* during the wait.
C15_WaitingForToolWhileSuspended ==
  \A t \in DOMAIN turns :
    turns[t].pc = "waiting" => status_state = "WaitingForTool"

\* C16: a user message received while no turn is in flight starts a turn for
\* it and emits a UserMessage event; received while a turn is in flight it is
\* only appended to the queue and the new queue length is published; at no
\* time are two turns in flight.
C16_IdleStartsBusyEnqueues ==
  /\ [](Cardinality(CtlInFlight) <= 1)
  /\ [][/\ user_sent' # user_sent =>
             /\ ctl_queue' = Append(ctl_queue, user_sent')
             /\ status_queue_len' = Len(ctl_queue')
             /\ turns' = turns
        /\ (actor_pc = "emit" /\ actor_pc' = "select") =>
             IF running = NoneOpt
               THEN /\ running' = Len(turns')
                    /\ Len(turns') = Len(turns) + 1
                    /\ turns'[running'].msg = user_sent
                    /\ LastEvent' = UserMessageEv(user_sent)
                    /\ ctl_queue' = <<>>
               ELSE /\ turns' = turns
                    /\ running' = running
                    /\ ctl_queue' = ctl_queue
                    /\ LastEvent'.type = "Status"
                    /\ LastEvent'.b = Len(ctl_queue)]_vars

\* a second message was enqueued behind the running turn of the first
C16_Witness ==
  /\ actor_pc = "select"
  /\ Len(turns) = 1
  /\ running = 1
  /\ turns[1].msg = 1
  /\ ctl_queue = <<2>>
  /\ LastEvent.type = "Status"
  /\ LastEvent.b = 1

\* the running turn waits for a resolution that has not come, uncancelled:
\* while this lasts the turn does not terminate
Unresolved ==
  /\ running # NoneOpt
  /\ turns[running].pc = "waiting"
  /\ chans[running].val = 0
  /\ ~turns[running].cancelled

\* C17: when a turn terminates, with whatever outcome, the actor starts the
\* oldest queued message if there is one and otherwise stores Idle and emits
\* a Status event; when the actor is idle no received message is left
\* without its own turn; and unless a turn waits unresolved for ever, every
\* received message gets its turn.
C17_TerminatedTurnStartsNextOrIdle ==
  /\ <>[]Unresolved \/ []<>(Len(turns) = user_sent)
  /\ [][(running # NoneOpt /\ running' # running) =>
          IF ctl_queue # <<>>
            THEN /\ running' = Len(turns) + 1
                 /\ turns'[running'].msg = Head(ctl_queue)
                 /\ turns'[running'].pc = "run"
                 /\ ctl_queue' = Tail(ctl_queue)
            ELSE /\ running' = NoneOpt
                 /\ status_state' = "Idle"
                 /\ LastEvent' = StatusEv("Idle", 0)]_vars
  /\ []((actor_pc = "select" /\ running = NoneOpt) =>
          /\ ctl_queue = <<>>
          /\ Len(turns) = user_sent
          /\ \A k \in DOMAIN turns : turns[k].msg = k)

\* the first turn's task failed, the second message got its turn all the
\* same, and the actor is idle again
C17_Witness ==
  /\ actor_pc = "select"
  /\ running = NoneOpt
  /\ Len(turns) = 2
  /\ turns[1].pc = "panicked"
  /\ turns[2].pc = "done"
  /\ status_state = "Idle"

\* C18: every turn that has terminated has exactly one AssistantMessage
\* event, and no Error event stands in its place.
C18_OneAssistantMessagePerTurn ==
  \A t \in Handled :
    Cardinality({i \in DOMAIN ctl_events :
                   ctl_events[i] \in {AssistantMessageEv(turns[t].msg, TRUE),
                                      AssistantMessageEv(turns[t].msg, FALSE)}}) = 1

\* C19: once every stored status has been broadcast, the last Status event
\* on the channel carries the value stored in the cell.
C19_SubscriberEndsWithStoredStatus ==
  (/\ actor_unsent = NoStatus
   /\ \A t \in DOMAIN turns : turns[t].pc \notin {"unsent_waiting", "unsent_running"}
   /\ StatusEvents # <<>>)
  => StatusEvents[Len(StatusEvents)] = StatusEv(status_state, status_queue_len)

\* the history pair of turn k
PairOf(k) == << <<"user", turns[k].msg>>,
                <<"assistant", <<turns[k].msg, turns[k].result>> >> >>

\* the pairs of every turn among the first n
RECURSIVE PairsOfTurns(_)
PairsOfTurns(n) ==
  IF n = 0 THEN <<>> ELSE PairsOfTurns(n - 1) \o PairOf(n)

\* C20: the history is the pairs of all the turns handled so
\* far, in submission order, and each turn was started with the pairs of all
\* the turns before it.
C20_HistoryHoldsEveryTurn ==
  /\ \A k \in DOMAIN turns : turns[k].msg = k /\ turns[k].hist = PairsOfTurns(k - 1)
  /\ ctl_history = PairsOfTurns(Cardinality(Handled))

\* the queue holds the received messages that have had no turn, oldest first
UnstartedInOrder ==
  ctl_queue = [i \in 1..(user_sent - Len(turns)) |-> Len(turns) + i]

C22_UnknownToolResultOnlyErrors ==
  [][\A id \in CallIds :
       (ActorToolResult(id) /\ pending[id] = 0) =>
         /\ ctl_events' = Append(ctl_events, ErrorEv("Unknown tool_call_id"))
         /\ actor_pc' = "select"
         /\ running' = running
         /\ turns' = turns
         /\ status_state' = status_state
         /\ status_queue_len' = status_queue_len
         /\ ctl_queue' = ctl_queue
         /\ ctl_history' = ctl_history
         /\ pending' = pending
         /\ chans' = chans]_vars

\* the running turn waits on its call while a result for another id has
\* been reported as an error
C22_Witness ==
  /\ running # NoneOpt
  /\ turns[running].pc = "waiting"
  /\ pending[running] # 0
  /\ chans[running].val = 0
  /\ ctl_events # <<>>
  /\ LastEvent = ErrorEv("Unknown tool_call_id")

\* C28: a Cancel command received while no turn is in flight emits no event
\* and changes neither the status, the queue nor the history.
C28_IdleCancelIsSilent ==
  [][(ActorCancel /\ running = NoneOpt) =>
       /\ ctl_events' = ctl_events
       /\ status_state' = status_state
       /\ status_queue_len' = status_queue_len
       /\ ctl_queue' = ctl_queue
       /\ ctl_history' = ctl_history]_vars

(***************************************************************************)
(* Claims about a backend's event stream, checked under SpecStream and     *)
(* SpecStreamFair.                                                         *)
(***************************************************************************)
\* the ExecutionEvents sent on the returned channel so far, while the caller
\* holds the Receiver
Stream == delivered \o out_chan

\* the MessageComplete events among them
Completes == SelectSeq(Stream, LAMBDA e : e = "MessageComplete")

\* C23: exactly one terminal MessageComplete is delivered on the returned
\* stream, after every other event and only once the process output has
\* ended; it is delivered to a caller that keeps the Receiver whenever the
\* output ends, also when the process emitted no event.
C23_OneTerminalMessageComplete ==
  /\ [](~rx_dropped =>
          /\ Len(Completes) <= 1
          /\ Len(Completes) = 1 =>
               /\ Stream[Len(Stream)] = "MessageComplete"
               /\ rd_pc = "done"
          /\ conv_pc = "done" => Len(Completes) = 1)
  /\ (rd_pc = "wait_child") ~>
       (rx_dropped \/ (delivered # <<>>
                         /\ delivered[Len(delivered)] = "MessageComplete"))

\* the process wrote only lines that carry no event, and the caller received
\* the MessageComplete alone
C23_Witness ==
  /\ emitted # <<>>
  /\ \A i \in DOMAIN emitted : ~Parses(emitted[i])
  /\ ~rx_dropped
  /\ delivered = <<"MessageComplete">>

\* a line that is not empty and does not parse
Unparseable(line) == line # "empty" /\ ~Parses(line)

\* the output with the unparseable lines removed
WithoutUnparseable(lines) == SelectSeq(lines, LAMBDA l : ~Unparseable(l))

\* the ExecutionEvents of an output in which every line parses or is empty
RECURSIVE EventsOf(_)
EventsOf(lines) ==
  IF lines = <<>> THEN <<>>
  ELSE (IF Head(lines) = "empty" THEN <<>> ELSE convert_cli_event(Head(lines)))
         \o EventsOf(Tail(lines))

\* the events of the turn that are delivered or on their way to the caller
InPipeline ==
  SelectSeq(Stream, LAMBDA e : e # "MessageComplete")
    \o conv_batch \o EventsOf(cli_chan)

TargetOf(op) ==
  CASE op = "start" -> "Running"
    [] op = "complete" -> "Completed"
    [] op = "fail" -> "Failed"
    [] op = "cancel" -> "Cancelled"

\* C27: a task's status only moves Pending -> Running, Running -> Completed,
\* Running -> Failed, and Pending or Running -> Cancelled; Completed, Failed
\* and Cancelled are absorbing; a call that returns Ok has made its
\* transition, and a call in a state that does not allow it returns
\* InvalidTransition and leaves every status unchanged.
C27_TaskStatusTransitions ==
  /\ [][\A i \in Tasks :
          task_status'[i] # task_status[i] =>
            \/ task_status[i].tag = "Pending" /\ task_status'[i].tag = "Running"
            \/ task_status[i].tag = "Running"
                 /\ task_status'[i].tag \in {"Completed", "Failed"}
            \/ task_status[i].tag \in {"Pending", "Running"}
                 /\ task_status'[i].tag = "Cancelled"]_vars
  /\ [][\A i \in Tasks :
          is_terminal(task_status[i]) => task_status'[i] = task_status[i]]_vars
  /\ [][\A i \in Tasks :
          LET from == task_status[i].tag
          IN /\ (Task_start(i) /\ from # "Pending") =>
                  (task_ret'.val = "InvalidTransition" /\ task_status' = task_status)
             /\ ((Task_complete(i) \/ \E r \in FailReasons : Task_fail(i, r))
                   /\ from # "Running") =>
                  (task_ret'.val = "InvalidTransition" /\ task_status' = task_status)
             /\ (Task_cancel(i) /\ from \notin {"Pending", "Running"}) =>
                  (task_ret'.val = "InvalidTransition" /\ task_status' = task_status)]_vars
  /\ []((task_ret.op # "none" /\ task_ret.val = "Ok") =>
          task_status[task_ret.task].tag = TargetOf(task_ret.op))

\* a task was cancelled while Running, and cancelling it again was refused
C27_Witness ==
  /\ task_status[1].tag = "Cancelled"
  /\ task_status[2].tag = "Failed"
  /\ task_ret = [op |-> "cancel", task |-> 1, val |-> "InvalidTransition"]

(***************************************************************************)
(* C25: for each CLI backend, when the backend process ended with a        *)
(* non-zero exit status and no explicit error event was seen, the result   *)
(* the turn builds after `child.wait()` is a failure with                  *)
(* TerminalReason::LlmError, never a success.                              *)
(***************************************************************************)
C25_NonZeroExitIsFailure ==
  [][(TurnChildWaited /\ ~had_error /\ ~exit_success)
       => turn_result'.reason = "LlmError"]_vars

(***************************************************************************)
(* Claims about the recovery dispatch, checked under SpecDetector.         *)
(***************************************************************************)

\* the check at which send_recovery_message was called and returned Err
RecoveryDispatchFailed ==
  /\ recoveries' = recoveries + 1
  /\ stuck_tool_warned'

\* C26: when the dispatch of the recovery message fails (and no hard abort
\* is due at that check), the original turn is kept alive: its backend
\* operation has not been aborted, its message request is not aborted, and
\* the detector is still consuming its event stream.
C26_FailedRecoveryKeepsTurnAlive ==
  [][(RecoveryDispatchFailed
        /\ ~AbortDue(clock - last_event_time))
       => /\ session_aborts' = session_aborts
          /\ ~handle_aborted'
          /\ oc_pc' = "streaming"]_vars

(***************************************************************************)
(* C29: check_health reports Stalled only for a mission that is Running or *)
(* WaitingForTool, and a mission whose turn was started less than 60       *)
(* seconds ago is not reported Stalled: in the state reached by the        *)
(* start_next that starts a turn, check_health does not answer Stalled.    *)
(* Checked under SpecHealth.                                               *)
(***************************************************************************)
C29_FreshTurnIsNotStalled ==
  /\ [](MissionHealthOf.kind = "Stalled" => is_running)
  /\ [][(~is_running /\ is_running') => MissionHealthOf'.kind # "Stalled"]_vars

(***************************************************************************)
(* C30: every event received from the backend resets the inactivity clock  *)
(* and re-arms recovery, and as long as the last event (or the start of    *)
(* the stream) is less than TOOL_STUCK_CHECK_INTERVAL old the detector     *)
(* does not query the backend for stuck tools, sends no recovery message   *)
(* and does not hard-abort the turn.  Checked under SpecDetector.          *)
(***************************************************************************)
EventReceived ==
  \E kind \in EventKinds : \E content \in Contents : OcEvent(kind, content)

RecentlyActive ==
  /\ oc_pc = "streaming"
  /\ clock - inactive_since < TOOL_STUCK_CHECK_INTERVAL

C30_EventsKeepDetectorQuiet ==
  /\ [][EventReceived => (last_event_time' = clock /\ ~stuck_tool_warned')]_vars
  /\ [][RecentlyActive => /\ last_stuck_check' = last_stuck_check
                          /\ recoveries' = recoveries
                          /\ oc_result'.reason # "Stalled"
                          /\ (~oc_cancel => session_aborts' = session_aborts)]_vars

\* a turn with a hard-abort timeout that has been streaming for longer than
\* that timeout and the first check past TOOL_STUCK_TIMEOUT, whose backend
\* emitted an event less than a check interval ago, and that was never
\* checked, recovered or aborted
C30_Witness ==
  /\ oc_pc = "streaming"
  /\ ~backend_silent
  /\ tool_stuck_abort_timeout_secs > 0
  /\ clock > tool_stuck_abort_timeout_secs + TOOL_STUCK_CHECK_INTERVAL
  /\ clock - inactive_since < TOOL_STUCK_CHECK_INTERVAL
  /\ last_stuck_check = 0
  /\ recoveries = 0
  /\ session_aborts = 0

(***************************************************************************)
(* C31: tools of the interactive kind "question" are never treated as      *)
(* stuck: as long as every status check found only question tools running, *)
(* no recovery message has been injected and the turn has not been         *)
(* aborted as stalled, however long the backend has been silent.           *)
(* Checked under SpecDetector.                                             *)
(***************************************************************************)
C31_QuestionToolNeverStuck ==
  (oc_pc # "new" /\ only_question)
    => /\ recoveries = 0
       /\ ~stuck_tool_warned
       /\ oc_result.reason # "Stalled"
       /\ ~oc_cancel => (session_aborts = 0 /\ ~handle_aborted)

\* a turn with a hard-abort timeout whose backend has been silent from the
\* start, checked past both the recovery threshold and the hard-abort
\* timeout with only question tools running, and still streaming
C31_Witness ==
  /\ oc_pc = "streaming"
  /\ backend_silent
  /\ only_question
  /\ tool_stuck_abort_timeout_secs > 0
  /\ last_stuck_check >= tool_stuck_abort_timeout_secs + TOOL_STUCK_CHECK_INTERVAL
  /\ last_stuck_check >= FirstCheckPastTimeout
  /\ recoveries = 0

(***************************************************************************)
(* Claims about the tool-calling loop, checked under SpecExec.             *)
(***************************************************************************)
\* the spend of this run of the loop, added to what the budget had spent
\* before, has reached the cap
SpendReachedCap ==
  /\ total_cost_cents > 0
  /\ budget_spent_cents + total_cost_cents >= budget_total_cents

\* C32: the budget is checked before each iteration against the spend
\* accumulated so far: once the cumulative spend has reached the cap no
\* further LLM call is made, and the iteration that finds it so ends the
\* loop with the budget-exhausted failure.
C32_NoLlmCallOnceBudgetSpent ==
  [][(ex_pc = "loop" /\ SpendReachedCap)
       => /\ llm_calls' = llm_calls
          /\ (iteration' = iteration + 1 /\ ~ex_cancel)
               => ex_result' = [output |-> "Budget exhausted before task completion",
                                success |-> FALSE]]_vars

(***************************************************************************)
(* C34: poll_completion is non-blocking and hands out each turn's result   *)
(* at most once: while the turn is unfinished it returns None and leaves   *)
(* state, queue, history, explicitly_completed and the turn handle         *)
(* unchanged; a result it returns is that of a turn not collected before;  *)
(* and once every started turn has been collected it returns None, until   *)
(* another turn is started.  Checked under SpecRunner.                     *)
(***************************************************************************)
C34_PollHandsOutResultOnce ==
  /\ [][(poll_completion /\ running_handle # NoneOpt
           /\ ~HandleFinished(running_handle))
          => /\ ret'.val = "None"
             /\ UNCHANGED <<state, queue, history, explicitly_completed,
                            running_handle>>]_vars
  /\ [][(poll_completion /\ ret'.val # "None")
          => /\ running_handle # NoneOpt
             /\ ~tasks[running_handle].collected
             /\ tasks'[running_handle].collected
             /\ ret'.val = <<tasks[running_handle].msg,
                             tasks[running_handle].output>>]_vars
  /\ [][(poll_completion /\ \A t \in DOMAIN tasks : tasks[t].collected)
          => /\ ret'.val = "None"
             /\ UNCHANGED <<state, queue, history, explicitly_completed,
                            running_handle>>]_vars

\* two turns have returned and been collected, and a further
\* poll_completion has answered None
C34_Witness ==
  /\ Len(tasks) = 2
  /\ \A t \in DOMAIN tasks : tasks[t].collected /\ tasks[t].status = "ok"
  /\ Len(history) = 4
  /\ running_handle = NoneOpt
  /\ ret = [op |-> "poll_completion", val |-> "None"]

(***************************************************************************)
(* C36: a cancel request affects only the turn in flight when it is        *)
(* processed.  Every turn gets a fresh cancellation token: the token of a  *)
(* turn that start_next has just started is not cancelled, whatever        *)
(* cancels were issued before (while idle, or after the previous turn had  *)
(* finished and before it was collected), and a cancel cancels no token    *)
(* but that of the most recently started turn.  Checked under SpecRunner.  *)
(***************************************************************************)
C36_CancelHitsOnlyTurnInFlight ==
  /\ [][start_next_spawn
          => /\ cancel_token' \notin cancelled'
             /\ tasks'[Len(tasks')].token = cancel_token'
             /\ \A t \in DOMAIN tasks : tasks[t].token # cancel_token']_vars
  /\ [][cancel
          => \A t \in DOMAIN tasks :
               tasks[t].token \in cancelled' \ cancelled => t = Len(tasks)]_vars
  /\ [](\A t \in DOMAIN tasks :
          (tasks[t].status = "ok" /\ tasks[t].output.kind = "cancelled")
            => tasks[t].token \in cancelled)

\* the token of the first turn was cancelled without that turn reporting
\* Cancelled (the cancel came after it had finished), and the second turn,
\* started afterwards, has returned with its own token not cancelled
C36_Witness ==
  /\ Len(tasks) = 2
  /\ tasks[1].token \in cancelled
  /\ tasks[1].output.kind # "cancelled"
  /\ tasks[1].collected
  /\ tasks[2].token \notin cancelled
  /\ tasks[2].status = "ok"

\* the same in the control actor: ControlCommand::Cancel cancels the token in
\* running_cancel, i.e. that of the turn in `running`, and a turn the actor
\* starts is not cancelled
C36_ControlCancelHitsRunningTurn ==
  /\ [][ActorCancel
          => \A t \in DOMAIN turns :
               (turns'[t].cancelled /\ ~turns[t].cancelled) => t = running]_vars
  /\ [][\A t \in DOMAIN turns' :
          t \notin DOMAIN turns => ~turns'[t].cancelled]_vars

(***************************************************************************)
(* C37: whenever the control actor is waiting for its next input, the      *)
(* stored status.queue_len equals the length of the actor's queue and the  *)
(* stored state is Idle exactly when no turn is in flight; so the actor is *)
(* never Idle while it holds a queued message.  Checked under SpecControl. *)
(***************************************************************************)
C37_StatusCellMatchesActor ==
  actor_pc = "select"
    => /\ status_queue_len = Len(ctl_queue)
       /\ (status_state = "Idle") <=> (running = NoneOpt)
       /\ status_state = "Idle" => ctl_queue = <<>>

\* the actor waits with a turn suspended on the hub and a message queued
\* behind it
C37_Witness ==
  /\ actor_pc = "select"
  /\ running # NoneOpt
  /\ status_state = "WaitingForTool"
  /\ Len(ctl_queue) = 1
  /\ status_queue_len = 1

(***************************************************************************)
(* C35: after a successful recovery splice the outcome of the turn is that *)
(* of the recovery turn: when the detector has switched to the recovery    *)
(* stream, that stream has run to its end and the message task reports no  *)
(* error, the turn terminates with TerminalReason::Completed.              *)
(* Checked under SpecDetector.                                             *)
(***************************************************************************)
\* the detector switched to a recovery stream, and that stream has ended
RecoveryStreamEnded ==
  /\ oc_pc = "joining"
  /\ recoveries >= 1
  /\ handle_aborted

C35_RecoveredTurnCompletes ==
  [][(RecoveryStreamEnded
        /\ \E parts, backfill \in PartKinds : OcJoin("Ok", parts, backfill))
       => oc_result'.reason = "Completed"]_vars

(***************************************************************************)
(* C38: the hub table holds an id only while a turn is suspended waiting   *)
(* on it: an entry whose waiter has gone away (its Receiver was dropped    *)
(* when the turn was cancelled during the wait) does not remain pending,   *)
(* and a resolve that returned Ok delivered its value to a live waiter.    *)
(* Checked under SpecHub.                                                  *)
(***************************************************************************)
C38_PendingOnlyWhileWaited ==
  /\ \A i \in CallIds : pending[i] # 0 => ~chans[pending[i]].rxDropped
  /\ \A p \in Resolvers :
       resolvers[p].result = "Ok" => chans[resolvers[p].tx].val = ValueOf(p)

(***************************************************************************)
(* C39: registering an id that is already pending replaces the earlier     *)
(* registration: the Sender of the earlier waiter is dropped unsent, so    *)
(* that waiter observes a closed channel and never a value; a following    *)
(* resolve delivers to the latest waiter only; and one resolve never       *)
(* delivers to two waiters.  Checked under SpecHub.                        *)
(***************************************************************************)
\* the calls whose channel holds the value of resolver p
DeliveredTo(p) == {c \in Calls : chans[c].val = ValueOf(p)}

C39_ReRegisterReplaces ==
  /\ [][\A i \in CallIds :
          (regs'[i] = regs[i] + 1 /\ pending[i] # 0)
            => /\ pending'[i] # pending[i]
               /\ chans'[pending[i]].txDropped
               /\ chans'[pending[i]].val = 0]_vars
  /\ [][\A c \in Calls :
          (chans[c].txDropped /\ chans[c].val = 0 /\ calls[c].tpc # "idle"
             /\ calls'[c].rx = calls[c].rx /\ hub_lock' # <<"call", c>>)
            => chans'[c].val = 0]_vars
  /\ [](\A p \in Resolvers : Cardinality(DeliveredTo(p)) <= 1)
  /\ [](\A c \in Calls : chans[c].sends <= 1)

\* two calls registered the same id; the earlier waiter found its channel
\* closed and the later one received the value of the resolve
C39_Witness ==
  \E c, d \in Calls :
    /\ c # d
    /\ calls[c].id = calls[d].id
    /\ calls[c].got = <<"closed", 0>>
    /\ calls[d].got[1] = "ok"
    /\ regs[calls[c].id] = 2

(***************************************************************************)
(* The order of a CLI turn's events.                                       *)
(***************************************************************************)

\* C33: the events of one turn reach the observers in the order the backend
\* wrote their lines, across stdout and stderr: an event of an earlier line
\* never comes after an event of a later line.
C33_EventsInEmissionOrder ==
  \A i, j \in 1..Len(cl_bus) : i < j => cl_bus[i].n <= cl_bus[j].n

\* within one pipe the order is kept: of two lines of the same pipe, the
\* events of the earlier line come first
PipeOrderKept ==
  \A i, j \in 1..Len(cl_bus) :
    (i < j /\ PipeOf(cl_written[cl_bus[i].n]) = PipeOf(cl_written[cl_bus[j].n]))
      => cl_bus[i].n <= cl_bus[j].n

\* C40: once the turn has returned its result nothing more is broadcast for
\* it: the bus holds what it held when the turn returned.
C40_NoEventAfterTurnReturned ==
  cl_main = "done" => Len(cl_bus) = cl_end


====
